---- MODULE Spec2Model ----
(***************************************************************************)
(* Model of the ent backend's source and HasSourceAt ingestion             *)
(* (pkg/assembler/backends/ent/backend/source.go).                         *)
(*                                                                         *)
(* The store is a relational database: a table of committed SourceName     *)
(* rows and a table of committed HasSourceAt rows.  Every ingestion call   *)
(* runs inside one transaction (WithinTX): its statements write to the     *)
(* transaction's own uncommitted rows, which the commit adds to the tables *)
(* and a rollback discards.  A statement whose row would collide with an   *)
(* uncommitted row of another transaction waits for that transaction.      *)
(***************************************************************************)
EXTENDS Integers, Sequences, FiniteSets, TLC

VARIABLES
    srcStore,   \* committed rows of table source_names
    hsaStore,   \* committed rows of table has_source_ats
    pc,         \* pc[c]: where caller c is inside its call
    call,       \* call[c]: the call in progress (arguments, loop position)
    tx,         \* tx[c]: uncommitted rows of c's open transaction
    res,        \* res[c]: what c's last finished call returned
    files,      \* files[path]: the file at a path under the collector's directory
    now,        \* the clock
    fc,         \* the file collector: its fields and where RetrieveArtifacts is
    docs,       \* the documents the consumer has received from docChannel
    mar         \* one call of the CertifyVuln list marshaller and its goroutines

storeVars == <<srcStore, hsaStore, pc, call, tx, res>>
collectorVars == <<files, now, fc, docs>>
vars == <<srcStore, hsaStore, pc, call, tx, res, files, now, fc, docs, mar>>

(***************************************************************************)
(* Bounds of the model.                                                    *)
(***************************************************************************)
\* longest list handed to a bulk call
MaxLen == 3
\* records per bulk statement (the backend's MaxBatchSize, scaled down)
MaxBatchSize == 2
\* records per query result (the backend's MaxPageSize, scaled down)
MaxPageSize == 2
\* times a file is written
MaxWrites == 2
\* last instant of the clock
MaxTime == 3

Callers == {"c1", "c2"}

(***************************************************************************)
(* Values.                                                                 *)
(***************************************************************************)
\* a nil *string
NoStr == "<nil>"
\* a nil global identifier, and a NULL uuid column
NoGID == <<>>
NullID == 0

srcTypeString == "srcType"
srcNamespaceString == "srcNamespace"
sourcenameTable == "source_names"
hassourceatTable == "has_source_ats"

SourceInputSpec(name, tag, commit) ==
    [Type |-> "git", Namespace |-> "ns", Name |-> name, Tag |-> tag, Commit |-> commit]

\* model.IDorSourceInput as the source ingestion receives it
IDorSourceInput(gid, in) == [SourceNameID |-> gid, SourceInput |-> in]

SrcInputs ==
    { SourceInputSpec("a", NoStr, NoStr),
      SourceInputSpec("a", "", ""),
      SourceInputSpec("b", NoStr, "ab"),
      SourceInputSpec("b", NoStr, "AB") }

IngestSourceArgs == { IDorSourceInput(NoGID, s) : s \in SrcInputs }

\* the inputs the lists of a bulk call are built from
BulkSrcInputs ==
    { SourceInputSpec("a", NoStr, NoStr),
      SourceInputSpec("b", NoStr, "ab") }

RECURSIVE SeqsUpTo(_, _)
SeqsUpTo(S, n) ==
    IF n = 0 THEN {<<>>}
    ELSE LET shorter == SeqsUpTo(S, n - 1)
         IN  shorter \cup { Append(q, x) : q \in { p \in shorter : Len(p) = n - 1 }, x \in S }

NonEmptySeqs(S, n) == SeqsUpTo(S, n) \ {<<>>}

(***************************************************************************)
(* Helpers of the backend.                                                 *)
(***************************************************************************)
stringOrEmpty(s) == IF s = NoStr THEN "" ELSE s

\* helpers.GetKey(..., SrcServerKey).NameId: the natural key of the input
SrcServerKey(in) ==
    <<in.Type, in.Namespace, in.Name, stringOrEmpty(in.Tag), stringOrEmpty(in.Commit)>>

NameCode(s) == CASE s = "a" -> 1 [] s = "b" -> 2 [] OTHER -> 9
TagCode(s) == CASE s = "" -> 0 [] OTHER -> 9
CommitCode(s) == CASE s = "" -> 0 [] s = "ab" -> 1 [] s = "AB" -> 2 [] OTHER -> 9

\* generateUUIDKey: a uuid computed from the key bytes alone (no two keys collide)
generateUUIDKey(key) == 100 * NameCode(key[3]) + 10 * TagCode(key[4]) + CommitCode(key[5])

\* toGlobalID / fromGlobalID: a type tag joined to the local identifier
toGlobalID(table, id) == <<table, id>>
fromGlobalID(gid) == [nodeType |-> gid[1], id |-> gid[2]]

RECURSIVE chunk(_, _)
chunk(items, size) ==
    IF Len(items) <= size THEN <<items>>
    ELSE <<SubSeq(items, 1, size)>> \o chunk(SubSeq(items, size + 1, Len(items)), size)

SeqToSet(q) == { q[i] : i \in 1..Len(q) }

(***************************************************************************)
(* Table source_names.                                                     *)
(***************************************************************************)
\* the unique index of the table: the natural key of a source
SourceNameUniqueIndex == {"type", "namespace", "name", "tag", "commit"}

\* two rows collide on a unique index when they agree on all its columns
\* and none of them is NULL
SameOn(r, q, cols) == \A f \in cols : r[f] = q[f] /\ r[f] # NoStr

\* MUTANT of generateSourceNameCreate: nillable tag and commit columns, and
\* an identifier that follows the raw input instead of the normalised key
generateSourceNameCreateNillable(srcNameID, srcInput) ==
    [ id        |-> srcNameID + (IF srcInput.SourceInput.Tag = NoStr THEN 1000 ELSE 0),
      type      |-> srcInput.SourceInput.Type,
      namespace |-> srcInput.SourceInput.Namespace,
      name      |-> srcInput.SourceInput.Name,
      tag       |-> srcInput.SourceInput.Tag,
      commit    |-> srcInput.SourceInput.Commit ]

generateSourceNameCreate(srcNameID, srcInput) ==
    [ id        |-> srcNameID,
      type      |-> srcInput.SourceInput.Type,
      namespace |-> srcInput.SourceInput.Namespace,
      name      |-> srcInput.SourceInput.Name,
      tag       |-> stringOrEmpty(srcInput.SourceInput.Tag),
      commit    |-> stringOrEmpty(srcInput.SourceInput.Commit) ]

\* INSERT of the rows `creates` (in order) into source_names as one statement,
\* against the rows `view` the transaction sees.  `conflictColumns` is the
\* ON CONFLICT target ({} for none); a collision on that target skips the row
\* (DO NOTHING), any other collision fails the statement.
RECURSIVE SourceNameInsert(_, _, _)
SourceNameInsert(view, creates, conflictColumns) ==
    IF conflictColumns # {} /\ conflictColumns # SourceNameUniqueIndex
    THEN [err |-> "constraint", rows |-> {}]
    ELSE IF creates = <<>> THEN [err |-> "none", rows |-> {}]
    ELSE LET before == SourceNameInsert(view, SubSeq(creates, 1, Len(creates) - 1), conflictColumns)
             r      == creates[Len(creates)]
             seen   == view \cup before.rows
             dup    == \E q \in seen : SameOn(r, q, SourceNameUniqueIndex)
             pkDup  == \E q \in seen : q.id = r.id
         IN  IF before.err # "none" THEN before
             ELSE IF dup /\ conflictColumns # {} THEN before
             ELSE IF dup \/ pkDup THEN [err |-> "constraint", rows |-> {}]
             ELSE [err |-> "none", rows |-> before.rows \cup {r}]

\* MUTANT of SourceIDs: the three identifiers carry the tag of the name table
SourceIDsOneTag(srcNameID) ==
    [ SourceTypeID      |-> toGlobalID(sourcenameTable, srcNameID),
      SourceNamespaceID |-> toGlobalID(sourcenameTable, srcNameID),
      SourceNameID      |-> toGlobalID(sourcenameTable, srcNameID) ]

SourceIDs(srcNameID) ==
    [ SourceTypeID      |-> toGlobalID(srcTypeString, srcNameID),
      SourceNamespaceID |-> toGlobalID(srcNamespaceString, srcNameID),
      SourceNameID      |-> toGlobalID(sourcenameTable, srcNameID) ]

(***************************************************************************)
(* Transactions (WithinTX).                                                *)
(***************************************************************************)
NoTx == [src |-> {}, hsa |-> {}]
\* conc: the call began while another caller was inside a call with the same
\* arguments
\* ctx: the context the caller passed, "live" until the caller cancels it
NoCall == [op |-> "none", ctx |-> "live", conc |-> FALSE]

\* What a finished call leaves behind for its caller: the operation, its
\* argument and result (for a bulk call only the number n of input records
\* and the number m of returned identifiers), the error, and for a failed
\* call the rows its transaction had written (wrote) and the batch whose
\* statement failed (chunk, 0 when none did).
NoRes == [op |-> "none", arg |-> <<>>, n |-> 0, err |-> "none", out |-> <<>>, m |-> 0,
          wrote |-> {}, chunk |-> 0, conc |-> FALSE, reads |-> 0, page |-> {}]

IsBulk(op) == op \in {"IngestSources", "IngestHasSourceAts"}

Returned(op, arg, err, out, wrote, chunkNo) ==
    [ op    |-> op,
      arg   |-> IF IsBulk(op) THEN <<>> ELSE arg,
      n     |-> IF IsBulk(op) THEN Len(arg) ELSE 1,
      err   |-> err,
      out   |-> IF IsBulk(op) \/ err # "none" THEN <<>> ELSE out,
      m     |-> IF err # "none" THEN 0 ELSE IF IsBulk(op) THEN Len(out) ELSE 1,
      wrote |-> wrote,
      chunk |-> chunkNo,
      conc  |-> FALSE,
      reads |-> 0,
      page  |-> {} ]

\* rows a statement of c's transaction sees: what is committed and what the
\* transaction itself wrote
SrcView(c) == srcStore \cup tx[c].src

\* a row that collides with an uncommitted row of another transaction makes
\* the statement wait for that transaction to end
SrcWaits(c, creates) ==
    \E d \in Callers \ {c} : \E q \in tx[d].src : \E r \in creates :
        SameOn(r, q, SourceNameUniqueIndex) \/ r.id = q.id

\* a statement or commit issued with a live context either runs or fails on
\* the way; issued with a cancelled context it fails without running
Faults(c) == IF call[c].ctx = "cancelled" THEN {TRUE} ELSE BOOLEAN

\* the error of a failure on the way: the context's own when it is cancelled
ErrOf(c, err) == IF err = "fault" /\ call[c].ctx = "cancelled" THEN "cancelled" ELSE err

\* the caller cancels the context of its call in progress
Cancel(c) ==
    /\ UNCHANGED <<collectorVars, mar>>
    /\ pc[c] # "idle"
    /\ call[c].ctx = "live"
    /\ call' = [call EXCEPT ![c].ctx = "cancelled"]
    /\ UNCHANGED <<srcStore, hsaStore, pc, tx, res>>

\* a statement sent to the database either runs or fails on the way
\* (connection lost, context cancelled)
Exec(fault, outcome) == IF fault THEN [err |-> "fault", rows |-> {}] ELSE outcome

\* the call's function returned an error: WithinTX rolls back and returns it
\* (reads: the queries the call had issued when it failed to build its row)
RollbackAfter(c, op, arg, err, chunkNo, reads) ==
    /\ tx' = [tx EXCEPT ![c] = NoTx]
    /\ pc' = [pc EXCEPT ![c] = "idle"]
    /\ call' = [call EXCEPT ![c] = NoCall]
    /\ res' = [res EXCEPT ![c] =
                 [Returned(op, arg, ErrOf(c, err), <<>>, tx[c].src \cup tx[c].hsa, chunkNo)
                     EXCEPT !.conc = call[c].conc, !.reads = reads]]
    /\ UNCHANGED <<srcStore, hsaStore>>

Rollback(c, op, arg, err, chunkNo) == RollbackAfter(c, op, arg, err, chunkNo, 0)

\* the call's function returned a value: WithinTX goes on to commit
ToCommit(c, op, arg, out, rowsSrc, rowsHsa) ==
    /\ tx' = [tx EXCEPT ![c] = [src |-> tx[c].src \cup rowsSrc, hsa |-> tx[c].hsa \cup rowsHsa]]
    /\ pc' = [pc EXCEPT ![c] = "commit"]
    /\ call' = [call EXCEPT ![c] = [op |-> op, ctx |-> call[c].ctx, conc |-> call[c].conc,
                                    arg |-> arg, out |-> out]]
    /\ res' = [res EXCEPT ![c] = NoRes]
    /\ UNCHANGED <<srcStore, hsaStore>>

\* tx.Commit(): all rows of the transaction become visible together, or the
\* commit fails and none does
WithinTXCommit(c) ==
    /\ UNCHANGED <<collectorVars, mar>>
    /\ pc[c] = "commit"
    /\ \E fault \in Faults(c) :
         /\ srcStore' = IF fault THEN srcStore ELSE srcStore \cup tx[c].src
         /\ hsaStore' = IF fault THEN hsaStore ELSE hsaStore \cup tx[c].hsa
         /\ res' = [res EXCEPT ![c] =
                      [(IF fault
                        THEN Returned(call[c].op, call[c].arg, ErrOf(c, "fault"), <<>>,
                                      tx[c].src \cup tx[c].hsa, 0)
                        ELSE Returned(call[c].op, call[c].arg, "none", call[c].out, {}, 0))
                          EXCEPT !.conc = call[c].conc]]
    /\ tx' = [tx EXCEPT ![c] = NoTx]
    /\ pc' = [pc EXCEPT ![c] = "idle"]
    /\ call' = [call EXCEPT ![c] = NoCall]

(***************************************************************************)
(* IngestSource.                                                           *)
(***************************************************************************)
\* MUTANT of upsertSource: the insert carries no ON CONFLICT clause
upsertSourcePlainInsert(view, src, fault) ==
    LET srcNameID == generateUUIDKey(SrcServerKey(src.SourceInput))
        create    == generateSourceNameCreate(srcNameID, src)
        ins       == Exec(fault, SourceNameInsert(view, <<create>>, {}))
    IN  [err |-> ins.err, rows |-> ins.rows, create |-> create, out |-> SourceIDs(srcNameID)]

\* MUTANT of upsertSource: the identifier is derived from the input as it
\* was given, a nil tag giving another identifier than an empty one
upsertSourceRawKey(view, src, fault) ==
    LET srcNameID == generateUUIDKey(SrcServerKey(src.SourceInput))
                        + (IF src.SourceInput.Tag = NoStr THEN 1000 ELSE 0)
        create    == generateSourceNameCreate(srcNameID, src)
        ins       == Exec(fault, SourceNameInsert(view, <<create>>,
                              {"type", "namespace", "name", "tag", "commit"}))
    IN  [err |-> ins.err, rows |-> ins.rows, create |-> create, out |-> SourceIDs(srcNameID)]

upsertSource(view, src, fault) ==
    LET srcNameID == generateUUIDKey(SrcServerKey(src.SourceInput))
        create    == generateSourceNameCreate(srcNameID, src)
        ins       == Exec(fault, SourceNameInsert(view, <<create>>,
                              {"type", "namespace", "name", "tag", "commit"}))
    IN  [err |-> ins.err, rows |-> ins.rows, create |-> create, out |-> SourceIDs(srcNameID)]

\* MUTANT of IngestSource: the insert runs outside the transaction and is
\* stored at once
IngestSourceAutoCommit(c) ==
    /\ UNCHANGED <<collectorVars, mar>>
    /\ pc[c] = "idle"
    /\ \E source \in IngestSourceArgs, fault \in BOOLEAN :
         LET r == upsertSource(SrcView(c), source, fault)
         IN  /\ fault \/ ~SrcWaits(c, {r.create})
             /\ IF r.err = "none"
                THEN /\ srcStore' = srcStore \cup r.rows
                     /\ pc' = [pc EXCEPT ![c] = "commit"]
                     /\ call' = [call EXCEPT ![c] = [op |-> "IngestSource", ctx |-> "live", conc |-> FALSE,
                                                      arg |-> source, out |-> r.out]]
                     /\ res' = [res EXCEPT ![c] = NoRes]
                     /\ UNCHANGED <<hsaStore, tx>>
                ELSE Rollback(c, "IngestSource", source, r.err, 0)

IngestSource(c) ==
    /\ UNCHANGED <<collectorVars, mar>>
    /\ pc[c] = "idle"
    /\ \E source \in IngestSourceArgs, fault \in BOOLEAN :
         LET r == upsertSource(SrcView(c), source, fault)
         IN  /\ fault \/ ~SrcWaits(c, {r.create})
             /\ IF r.err = "none"
                THEN ToCommit(c, "IngestSource", source, r.out, r.rows, {})
                ELSE Rollback(c, "IngestSource", source, r.err, 0)

(***************************************************************************)
(* IngestSources.                                                          *)
(***************************************************************************)
IngestSourcesArgs == NonEmptySeqs({ IDorSourceInput(NoGID, s) : s \in BulkSrcInputs }, MaxLen)

IngestSources(c) ==
    /\ UNCHANGED <<collectorVars, mar>>
    /\ pc[c] = "idle"
    /\ \E sources \in IngestSourcesArgs :
         call' = [call EXCEPT ![c] = [op |-> "IngestSources", ctx |-> "live", conc |-> FALSE,
                                      arg |-> sources,
                                      batch |-> 1, failed |-> 0, srcNameIDs |-> <<>>]]
    /\ pc' = [pc EXCEPT ![c] = "upsertBulkSource"]
    /\ res' = [res EXCEPT ![c] = NoRes]
    /\ UNCHANGED <<srcStore, hsaStore, tx>>

\* one turn of the loop over the batches: build the creates of the batch and
\* send them as one statement
upsertBulkSourceBatch(view, srcs, fault) ==
    LET ids     == [i \in 1..Len(srcs) |-> generateUUIDKey(SrcServerKey(srcs[i].SourceInput))]
        creates == [i \in 1..Len(srcs) |-> generateSourceNameCreate(ids[i], srcs[i])]
        ins     == Exec(fault, SourceNameInsert(view, creates,
                              {"type", "namespace", "name", "tag", "commit"}))
    IN  [err |-> ins.err, rows |-> ins.rows, creates |-> creates, srcNameIDs |-> ids]

\* MUTANT of upsertBulkSource: every batch is stored as soon as its
\* statement has run
upsertBulkSourcePerBatch(c) ==
    /\ UNCHANGED <<collectorVars, mar>>
    /\ pc[c] = "upsertBulkSource"
    /\ \E fault \in Faults(c) :
         LET batches == chunk(call[c].arg, MaxBatchSize)
             k       == call[c].batch
             r       == upsertBulkSourceBatch(SrcView(c), batches[k], fault)
             ids     == call[c].srcNameIDs \o r.srcNameIDs
         IN  /\ fault \/ ~SrcWaits(c, SeqToSet(r.creates))
             /\ IF r.err # "none"
                THEN Rollback(c, "IngestSources", call[c].arg, r.err, k)
                ELSE IF k < Len(batches)
                THEN /\ srcStore' = srcStore \cup r.rows
                     /\ call' = [call EXCEPT ![c].batch = k + 1, ![c].srcNameIDs = ids]
                     /\ UNCHANGED <<hsaStore, tx, pc, res>>
                ELSE ToCommit(c, "IngestSources", call[c].arg,
                              [i \in 1..Len(ids) |-> SourceIDs(ids[i])], r.rows, {})

\* MUTANT of upsertBulkSource: after a failed batch the loop goes on with the
\* next batch, and the call returns the error when the loop ends
upsertBulkSourceKeepGoing(c) ==
    /\ UNCHANGED <<collectorVars, mar>>
    /\ pc[c] = "upsertBulkSource"
    /\ \E fault \in Faults(c) :
         LET batches == chunk(call[c].arg, MaxBatchSize)
             k       == call[c].batch
             r       == upsertBulkSourceBatch(SrcView(c), batches[k], fault)
             ids     == call[c].srcNameIDs \o r.srcNameIDs
             failed  == IF call[c].failed # 0 THEN call[c].failed
                        ELSE IF r.err # "none" THEN k ELSE 0
         IN  /\ fault \/ ~SrcWaits(c, SeqToSet(r.creates))
             /\ IF k < Len(batches)
                THEN /\ tx' = [tx EXCEPT ![c].src = @ \cup r.rows]
                     /\ call' = [call EXCEPT ![c].batch = k + 1, ![c].srcNameIDs = ids,
                                             ![c].failed = failed]
                     /\ UNCHANGED <<srcStore, hsaStore, pc, res>>
                ELSE IF failed # 0
                THEN Rollback(c, "IngestSources", call[c].arg, "fault", failed)
                ELSE ToCommit(c, "IngestSources", call[c].arg,
                              [i \in 1..Len(ids) |-> SourceIDs(ids[i])], r.rows, {})

\* MUTANT of upsertBulkSource: the list of identifiers is started afresh for
\* every batch
upsertBulkSourceIDsPerBatch(c) ==
    /\ UNCHANGED <<collectorVars, mar>>
    /\ pc[c] = "upsertBulkSource"
    /\ \E fault \in Faults(c) :
         LET batches == chunk(call[c].arg, MaxBatchSize)
             k       == call[c].batch
             r       == upsertBulkSourceBatch(SrcView(c), batches[k], fault)
             ids     == r.srcNameIDs
         IN  /\ fault \/ ~SrcWaits(c, SeqToSet(r.creates))
             /\ IF r.err # "none"
                THEN Rollback(c, "IngestSources", call[c].arg, r.err, k)
                ELSE IF k < Len(batches)
                THEN /\ tx' = [tx EXCEPT ![c].src = @ \cup r.rows]
                     /\ call' = [call EXCEPT ![c].batch = k + 1, ![c].srcNameIDs = ids]
                     /\ UNCHANGED <<srcStore, hsaStore, pc, res>>
                ELSE ToCommit(c, "IngestSources", call[c].arg,
                              [i \in 1..Len(ids) |-> SourceIDs(ids[i])], r.rows, {})

\* MUTANT of upsertBulkSource: the statements are issued with a context of
\* their own, which the caller's cancellation does not reach
upsertBulkSourceDetached(c) ==
    /\ UNCHANGED <<collectorVars, mar>>
    /\ pc[c] = "upsertBulkSource"
    /\ \E fault \in BOOLEAN :
         LET batches == chunk(call[c].arg, MaxBatchSize)
             k       == call[c].batch
             r       == upsertBulkSourceBatch(SrcView(c), batches[k], fault)
             ids     == call[c].srcNameIDs \o r.srcNameIDs
         IN  /\ fault \/ ~SrcWaits(c, SeqToSet(r.creates))
             /\ IF r.err # "none"
                THEN Rollback(c, "IngestSources", call[c].arg, r.err, k)
                ELSE IF k < Len(batches)
                THEN /\ tx' = [tx EXCEPT ![c].src = @ \cup r.rows]
                     /\ call' = [call EXCEPT ![c].batch = k + 1, ![c].srcNameIDs = ids]
                     /\ UNCHANGED <<srcStore, hsaStore, pc, res>>
                ELSE ToCommit(c, "IngestSources", call[c].arg,
                              [i \in 1..Len(ids) |-> SourceIDs(ids[i])], r.rows, {})

upsertBulkSource(c) ==
    /\ UNCHANGED <<collectorVars, mar>>
    /\ pc[c] = "upsertBulkSource"
    /\ \E fault \in Faults(c) :
         LET batches == chunk(call[c].arg, MaxBatchSize)
             k       == call[c].batch
             r       == upsertBulkSourceBatch(SrcView(c), batches[k], fault)
             ids     == call[c].srcNameIDs \o r.srcNameIDs
         IN  /\ fault \/ ~SrcWaits(c, SeqToSet(r.creates))
             /\ IF r.err # "none"
                THEN Rollback(c, "IngestSources", call[c].arg, r.err, k)
                ELSE IF k < Len(batches)
                THEN /\ tx' = [tx EXCEPT ![c].src = @ \cup r.rows]
                     /\ call' = [call EXCEPT ![c].batch = k + 1, ![c].srcNameIDs = ids]
                     /\ UNCHANGED <<srcStore, hsaStore, pc, res>>
                ELSE ToCommit(c, "IngestSources", call[c].arg,
                              [i \in 1..Len(ids) |-> SourceIDs(ids[i])], r.rows, {})

(***************************************************************************)
(* Packages.  Package ingestion is not part of this model: the package     *)
(* tables hold one package name and one version of it.                     *)
(***************************************************************************)
packagenameTable == "package_names"
packageversionTable == "package_versions"

PkgNameP == 11
PkgVersionP == 21

pkgNameStore == { [id |-> PkgNameP, name |-> "p"] }
pkgVersionStore == { [id |-> PkgVersionP, name_id |-> PkgNameP, version |-> "1"] }

\* model.PkgInputSpec; NoPkgInput is the nil pointer
PkgInputSpec(name, version) == [Name |-> name, Version |-> version]
NoPkgInput == PkgInputSpec(NoStr, NoStr)
NoSourceInput == SourceInputSpec(NoStr, NoStr, NoStr)

\* model.IDorPkgInput; NilPkg is the nil *IDorPkgInput
IDorPkgInput(nameID, versionID, in) ==
    [isNil |-> FALSE, PackageNameID |-> nameID, PackageVersionID |-> versionID, PackageInput |-> in]
NilPkg == [isNil |-> TRUE, PackageNameID |-> NoGID, PackageVersionID |-> NoGID, PackageInput |-> NoPkgInput]

\* *model.IDorSourceInput as the evidence ingestion receives it
SrcRef(gid, in) == [isNil |-> FALSE, SourceNameID |-> gid, SourceInput |-> in]
NilSrc == [isNil |-> TRUE, SourceNameID |-> NoGID, SourceInput |-> NoSourceInput]

\* a global identifier whose local part is no uuid
BadGID == <<"", -1>>
uuidParseFails(id) == id < 0

ALL_VERSIONS == "ALL_VERSIONS"
SPECIFIC_VERSION == "SPECIFIC_VERSION"
PkgMatchType == {ALL_VERSIONS, SPECIFIC_VERSION}

\* time.Time: an instant and the zone it is written in
Time(t, zone) == [t |-> t, zone |-> zone]
UTC(time) == [t |-> time.t, zone |-> "UTC"]

HasSourceAtInputSpec(justification, knownSince) ==
    [Justification |-> justification, KnownSince |-> knownSince,
     Origin |-> "o", Collector |-> "c", DocumentRef |-> "d"]

\* getPkgName / getPkgVersion: the row of the package the input names
getPkgName(in) ==
    LET found == { r \in pkgNameStore : r.name = in.Name }
    IN  IF found = {} THEN [err |-> "notfound", id |-> NullID]
        ELSE [err |-> "none", id |-> (CHOOSE r \in found : TRUE).id]

getPkgVersion(in) ==
    LET names == { r.id : r \in { q \in pkgNameStore : q.name = in.Name } }
        found == { r \in pkgVersionStore : r.name_id \in names /\ r.version = in.Version }
    IN  IF found = {} THEN [err |-> "notfound", id |-> NullID]
        ELSE [err |-> "none", id |-> (CHOOSE r \in found : TRUE).id]

(***************************************************************************)
(* Source lookup by natural key.                                           *)
(***************************************************************************)
\* strings.EqualFold on the strings of the model
ToLower(s) == CASE s = "AB" -> "ab" [] OTHER -> s
EqualFold(s, t) == ToLower(s) = ToLower(t)

NoFilter == "<unset>"
SourceSpec(id, type, namespace, name, tag, commit) ==
    [ID |-> id, Type |-> type, Namespace |-> namespace, Name |-> name, Tag |-> tag, Commit |-> commit]

\* MUTANT of sourceQuery: the commit is compared as written
sourceQueryCommitEQ(filter, row) ==
    /\ filter.ID = NoGID \/ fromGlobalID(filter.ID).id = row.id
    /\ filter.Type = NoFilter \/ filter.Type = row.type
    /\ filter.Namespace = NoFilter \/ filter.Namespace = row.namespace
    /\ filter.Name = NoFilter \/ filter.Name = row.name
    /\ filter.Commit = NoFilter \/ filter.Commit = row.commit
    /\ filter.Tag = NoFilter \/ filter.Tag = row.tag

\* sourceQuery: the conjunction of the predicates of the fields that are set
sourceQuery(filter, row) ==
    /\ filter.ID = NoGID \/ fromGlobalID(filter.ID).id = row.id
    /\ filter.Type = NoFilter \/ filter.Type = row.type
    /\ filter.Namespace = NoFilter \/ filter.Namespace = row.namespace
    /\ filter.Name = NoFilter \/ filter.Name = row.name
    /\ filter.Commit = NoFilter \/ EqualFold(filter.Commit, row.commit)
    /\ filter.Tag = NoFilter \/ filter.Tag = row.tag

sourceInputQuery(in, row) ==
    sourceQuery(SourceSpec(NoGID, in.Type, in.Namespace, in.Name,
                           stringOrEmpty(in.Tag), stringOrEmpty(in.Commit)), row)

\* Query().Where(...).OnlyID: the one matching row, an error for none or several
getSourceNameID(srcView, in) ==
    LET found == { r \in srcView : sourceInputQuery(in, r) }
    IN  IF found = {} THEN [err |-> "notfound", id |-> NullID]
        ELSE IF Cardinality(found) > 1 THEN [err |-> "notsingular", id |-> NullID]
        ELSE [err |-> "none", id |-> (CHOOSE r \in found : TRUE).id]

(***************************************************************************)
(* Table has_source_ats.                                                   *)
(***************************************************************************)
hasSourceAtConflictColumns ==
    {"source_id", "justification", "known_since", "collector", "origin", "document_ref"}

\* sql.And(sql.IsNull(a), sql.NotNull(b))
IsNullNotNull(a, b) == [isNull |-> a, notNull |-> b]

\* the two partial unique indexes of the table
HasSourceAtIndexes ==
    { [cols  |-> hasSourceAtConflictColumns \cup {"package_name_id"},
       where |-> IsNullNotNull("package_version_id", "package_name_id")],
      [cols  |-> hasSourceAtConflictColumns \cup {"package_version_id"},
       where |-> IsNullNotNull("package_name_id", "package_version_id")] }

InIndex(r, idx) == r[idx.where.isNull] = NullID /\ r[idx.where.notNull] # NullID
Collide(r, q, idx) == InIndex(r, idx) /\ InIndex(q, idx) /\ \A f \in idx.cols : r[f] = q[f]

\* the foreign keys of a has_source_ats row
ForeignKeysHold(r, srcView) ==
    /\ r.source_id \in { q.id : q \in srcView }
    /\ r.package_name_id = NullID \/ r.package_name_id \in { q.id : q \in pkgNameStore }
    /\ r.package_version_id = NullID \/ r.package_version_id \in { q.id : q \in pkgVersionStore }

\* INSERT of the rows `creates` (in order) into has_source_ats as one
\* statement with ON CONFLICT (conflictColumns) WHERE conflictWhere.  ids[i]
\* is the identifier the statement reports for creates[i]: the row's own when
\* it was inserted, the stored row's when it collided on the conflict target.
RECURSIVE HasSourceAtInsert(_, _, _, _, _)
HasSourceAtInsert(view, srcView, creates, conflictColumns, conflictWhere) ==
    LET arbiter == { idx \in HasSourceAtIndexes :
                        idx.cols = conflictColumns /\ idx.where = conflictWhere }
    IN  IF arbiter = {} THEN [err |-> "constraint", rows |-> {}, ids |-> <<>>]
        ELSE IF creates = <<>> THEN [err |-> "none", rows |-> {}, ids |-> <<>>]
        ELSE LET before == HasSourceAtInsert(view, srcView,
                               SubSeq(creates, 1, Len(creates) - 1), conflictColumns, conflictWhere)
                 r      == creates[Len(creates)]
                 seen   == view \cup before.rows
                 hits   == { q \in seen : \E idx \in arbiter : Collide(r, q, idx) }
                 other  == \E q \in seen :
                              \/ q.id = r.id
                              \/ \E idx \in HasSourceAtIndexes \ arbiter : Collide(r, q, idx)
             IN  IF before.err # "none" THEN before
                 ELSE IF hits # {}
                 THEN [before EXCEPT !.ids = Append(@, (CHOOSE q \in hits : TRUE).id)]
                 ELSE IF other \/ ~ForeignKeysHold(r, srcView)
                 THEN [err |-> "constraint", rows |-> {}, ids |-> <<>>]
                 ELSE [err |-> "none", rows |-> before.rows \cup {r}, ids |-> Append(before.ids, r.id)]

HsaView(c) == hsaStore \cup tx[c].hsa

HsaWaits(c, creates) ==
    \E d \in Callers \ {c} : \E q \in tx[d].hsa : \E r \in creates :
        \E idx \in HasSourceAtIndexes : Collide(r, q, idx)

\* the schema's default identifier: uuids no row has
UsedIDs == { r.id : r \in hsaStore \cup UNION { tx[d].hsa : d \in Callers } }
RECURSIVE NewUUIDs(_, _)
NewUUIDs(used, n) ==
    IF n = 0 THEN <<>>
    ELSE LET id == CHOOSE i \in 1..(Cardinality(used) + 1) : i \notin used
         IN  <<id>> \o NewUUIDs(used \cup {id}, n - 1)

(***************************************************************************)
(* generateHasSourceAtCreate.                                              *)
(***************************************************************************)
NoCreate == [source_id |-> NullID]

HasSourceAtCreate(sourceID, nameID, versionID, hs) ==
    [ source_id          |-> sourceID,
      package_name_id    |-> nameID,
      package_version_id |-> versionID,
      justification      |-> hs.Justification,
      known_since        |-> UTC(hs.KnownSince),
      collector          |-> hs.Collector,
      origin             |-> hs.Origin,
      document_ref       |-> hs.DocumentRef ]

\* MUTANT of ResolveSource: a supplied identifier is confirmed by a query
\* for the source before it is used
ResolveSourceQueried(srcView, src) ==
    IF src.SourceNameID # NoGID
    THEN LET id == fromGlobalID(src.SourceNameID).id
         IN  IF uuidParseFails(id) THEN [err |-> "invalid", id |-> NullID, reads |-> 0]
             ELSE IF id \notin { r.id : r \in srcView } THEN [err |-> "notfound", id |-> NullID, reads |-> 1]
             ELSE [err |-> "none", id |-> id, reads |-> 1]
    ELSE IF src.SourceInput = NoSourceInput THEN [err |-> "panic", id |-> NullID, reads |-> 0]
    ELSE LET got == getSourceNameID(srcView, src.SourceInput)
         IN  [err |-> got.err, id |-> got.id, reads |-> 1]

\* the source of the evidence: the identifier supplied, else a lookup by key
\* (reads counts the queries issued)
ResolveSource(srcView, src) ==
    IF src.SourceNameID # NoGID
    THEN LET id == fromGlobalID(src.SourceNameID).id
         IN  IF uuidParseFails(id) THEN [err |-> "invalid", id |-> NullID, reads |-> 0]
             ELSE [err |-> "none", id |-> id, reads |-> 0]
    ELSE IF src.SourceInput = NoSourceInput THEN [err |-> "panic", id |-> NullID, reads |-> 0]
    ELSE LET got == getSourceNameID(srcView, src.SourceInput)
         IN  [err |-> got.err, id |-> got.id, reads |-> 1]

\* the package of the evidence under the match type: the identifier of the
\* column the match type selects, else a lookup by key
ResolvePackage(pkg, pkgMatchType) ==
    LET gid == IF pkgMatchType = ALL_VERSIONS THEN pkg.PackageNameID ELSE pkg.PackageVersionID
    IN  IF gid # NoGID
        THEN LET id == fromGlobalID(gid).id
             IN  IF uuidParseFails(id) THEN [err |-> "invalid", id |-> NullID, reads |-> 0]
                 ELSE [err |-> "none", id |-> id, reads |-> 0]
        ELSE IF pkg.PackageInput = NoPkgInput THEN [err |-> "panic", id |-> NullID, reads |-> 0]
        ELSE LET got == IF pkgMatchType = ALL_VERSIONS THEN getPkgName(pkg.PackageInput)
                        ELSE getPkgVersion(pkg.PackageInput)
             IN  [err |-> got.err, id |-> got.id, reads |-> 1]

\* MUTANT of PackageColumns: every package identifier the caller supplied is
\* written to its column
PackageColumnsAllSupplied(pkgID, pkg, pkgMatchType) ==
    [ name    |-> IF pkg.PackageNameID # NoGID THEN fromGlobalID(pkg.PackageNameID).id
                  ELSE IF pkgMatchType = ALL_VERSIONS THEN pkgID ELSE NullID,
      version |-> IF pkg.PackageVersionID # NoGID THEN fromGlobalID(pkg.PackageVersionID).id
                  ELSE IF pkgMatchType = ALL_VERSIONS THEN NullID ELSE pkgID ]

\* MUTANT of PackageColumns: the ALL_VERSIONS branch sets no package column
PackageColumnsUnbound(pkgID, pkg, pkgMatchType) ==
    IF pkgMatchType = ALL_VERSIONS
    THEN [name |-> NullID, version |-> NullID]
    ELSE [name |-> NullID, version |-> pkgID]

\* MUTANT of PackageColumns: evidence for a version is attached to the name
\* of the version's package
PackageColumnsNameLevel(pkgID, pkg, pkgMatchType) ==
    IF pkgMatchType = ALL_VERSIONS
    THEN [name |-> pkgID, version |-> NullID]
    ELSE [name    |-> (CHOOSE v \in pkgVersionStore : v.id = pkgID).name_id,
          version |-> NullID]

\* the package columns of the create: SetPackageNameID under ALL_VERSIONS,
\* SetPackageVersionID otherwise, and the other column left NULL
PackageColumns(pkgID, pkg, pkgMatchType) ==
    IF pkgMatchType = ALL_VERSIONS
    THEN [name |-> pkgID, version |-> NullID]
    ELSE [name |-> NullID, version |-> pkgID]

generateHasSourceAtCreate(srcView, pkg, src, pkgMatchType, hs) ==
    IF src.isNil THEN [err |-> "invalid", create |-> NoCreate, reads |-> 0]
    ELSE LET s == ResolveSource(srcView, src)
         IN  IF s.err # "none" THEN [err |-> s.err, create |-> NoCreate, reads |-> s.reads]
             ELSE IF pkg.isNil THEN [err |-> "invalid", create |-> NoCreate, reads |-> s.reads]
             ELSE LET p == ResolvePackage(pkg, pkgMatchType)
                  IN  IF p.err # "none"
                      THEN [err |-> p.err, create |-> NoCreate, reads |-> s.reads + p.reads]
                      ELSE LET cols == PackageColumns(p.id, pkg, pkgMatchType)
                           IN  [err    |-> "none",
                                create |-> HasSourceAtCreate(s.id, cols.name, cols.version, hs),
                                reads  |-> s.reads + p.reads]

\* the conflict target the match type selects
HasSourceAtConflict(pkgMatchType) ==
    IF pkgMatchType = ALL_VERSIONS
    THEN [columns |-> hasSourceAtConflictColumns \cup {"package_name_id"},
          where   |-> IsNullNotNull("package_version_id", "package_name_id")]
    ELSE [columns |-> hasSourceAtConflictColumns \cup {"package_version_id"},
          where   |-> IsNullNotNull("package_name_id", "package_version_id")]

WithID(create, id) == [f \in DOMAIN create \cup {"id"} |-> IF f = "id" THEN id ELSE create[f]]

(***************************************************************************)
(* IngestHasSourceAt.                                                      *)
(***************************************************************************)
HasSourceAtArgs(pkg, pkgMatchType, source, hasSourceAt) ==
    [pkg |-> pkg, pkgMatchType |-> pkgMatchType, source |-> source, hasSourceAt |-> hasSourceAt]

SourceA == SourceInputSpec("a", NoStr, NoStr)
SourceAID == toGlobalID(sourcenameTable, generateUUIDKey(SrcServerKey(SourceA)))
PkgP == PkgInputSpec("p", "1")
PkgQ == PkgInputSpec("q", "1")
PkgNameGID == toGlobalID(packagenameTable, PkgNameP)
PkgVersionGID == toGlobalID(packageversionTable, PkgVersionP)

E1 == HasSourceAtInputSpec("j", Time(1, "UTC"))
E1z == HasSourceAtInputSpec("j", Time(1, "CET"))
E2 == HasSourceAtInputSpec("j", Time(2, "UTC"))
SourceB == SourceInputSpec("b", NoStr, "ab")
SourceBID == toGlobalID(sourcenameTable, generateUUIDKey(SrcServerKey(SourceB)))

HsaPkgs ==
    { IDorPkgInput(PkgNameGID, NoGID, NoPkgInput),
      IDorPkgInput(NoGID, PkgVersionGID, NoPkgInput),
      IDorPkgInput(PkgNameGID, PkgVersionGID, NoPkgInput),
      IDorPkgInput(NoGID, NoGID, NoPkgInput),
      IDorPkgInput(NoGID, NoGID, PkgP),
      IDorPkgInput(NoGID, NoGID, PkgQ),
      IDorPkgInput(BadGID, BadGID, NoPkgInput) }

HsaSrcs ==
    { SrcRef(SourceAID, NoSourceInput),
      SrcRef(NoGID, SourceA),
      SrcRef(NoGID, SourceInputSpec("b", NoStr, "ab")),
      SrcRef(NoGID, NoSourceInput),
      SrcRef(BadGID, NoSourceInput) }

IngestHasSourceAtArgs ==
    { HasSourceAtArgs(p, m, s, e) : p \in HsaPkgs, m \in PkgMatchType, s \in HsaSrcs,
                                    e \in {E1, E1z} }

\* the arguments of the calls that run concurrently
ConcurrentHasSourceAtArgs ==
    { HasSourceAtArgs(p, m, s, e) :
        p \in { IDorPkgInput(PkgNameGID, PkgVersionGID, NoPkgInput), IDorPkgInput(NoGID, NoGID, PkgP) },
        m \in PkgMatchType,
        s \in { SrcRef(NoGID, SourceA) },
        e \in {E1, E1z} }

\* MUTANT of upsertHasSourceAtID: on a collision the call reports the
\* identifier made for its own create, not the stored row's
upsertHasSourceAtOwnID(view, srcView, insert, pkgMatchType, fault) ==
    LET conflict == HasSourceAtConflict(pkgMatchType)
        ins      == Exec(fault, HasSourceAtInsert(view, srcView, <<insert>>,
                                                  conflict.columns, conflict.where))
    IN  IF ins.err # "none" THEN [err |-> ins.err, rows |-> {}, id |-> NullID]
        ELSE [err |-> "none", rows |-> ins.rows, id |-> insert.id]

\* insert.OnConflict(columns, where).Ignore().ID(ctx)
upsertHasSourceAtID(view, srcView, insert, pkgMatchType, fault) ==
    LET conflict == HasSourceAtConflict(pkgMatchType)
        ins      == Exec(fault, HasSourceAtInsert(view, srcView, <<insert>>,
                                                  conflict.columns, conflict.where))
    IN  IF ins.err # "none" THEN [err |-> ins.err, rows |-> {}, id |-> NullID]
        ELSE [err |-> "none", rows |-> ins.rows, id |-> ins.ids[1]]

\* the call opens its transaction and builds the create
IngestHasSourceAt(c, Args) ==
    /\ UNCHANGED <<collectorVars, mar>>
    /\ pc[c] = "idle"
    /\ \E a \in Args :
         LET g == generateHasSourceAtCreate(SrcView(c), a.pkg, a.source, a.pkgMatchType, a.hasSourceAt)
         IN  IF g.err # "none"
             THEN RollbackAfter(c, "IngestHasSourceAt", a, g.err, 0, g.reads)
             ELSE /\ call' = [call EXCEPT ![c] =
                              [op     |-> "IngestHasSourceAt",
                               ctx    |-> "live",
                               conc   |-> \E d \in Callers \ {c} :
                                             /\ call[d].op = "IngestHasSourceAt"
                                             /\ call[d].arg = a,
                               arg    |-> a,
                               create |-> g.create,
                               reads  |-> g.reads]]
                  /\ pc' = [pc EXCEPT ![c] = "upsertHasSourceAt"]
                  /\ res' = [res EXCEPT ![c] = NoRes]
                  /\ UNCHANGED <<srcStore, hsaStore, tx>>

\* MUTANT of upsertHasSourceAt: on a collision the stored row is replaced by
\* the call's own create
upsertHasSourceAtReplace(c) ==
    /\ UNCHANGED <<collectorVars, mar>>
    /\ pc[c] = "upsertHasSourceAt"
    /\ \E fault \in Faults(c) :
         LET insert == WithID(call[c].create, NewUUIDs(UsedIDs, 1)[1])
             r      == upsertHasSourceAtID(HsaView(c), SrcView(c), insert,
                                           call[c].arg.pkgMatchType, fault)
         IN  /\ fault \/ ~HsaWaits(c, {insert})
             /\ IF r.err # "none"
                THEN Rollback(c, "IngestHasSourceAt", call[c].arg, r.err, 0)
                ELSE /\ hsaStore' = { q \in hsaStore : q.id # r.id }
                     /\ tx' = [tx EXCEPT ![c].hsa = (@ \ { q \in @ : q.id = r.id }) \cup {insert}]
                     /\ pc' = [pc EXCEPT ![c] = "commit"]
                     /\ call' = [call EXCEPT ![c] =
                                     [op |-> "IngestHasSourceAt", ctx |-> call[c].ctx,
                                      conc |-> call[c].conc,
                                      arg |-> call[c].arg,
                                      out |-> toGlobalID(hassourceatTable, insert.id)]]
                     /\ res' = [res EXCEPT ![c] = NoRes]
                     /\ UNCHANGED srcStore

\* the insert of the create inside the transaction
upsertHasSourceAt(c) ==
    /\ UNCHANGED <<collectorVars, mar>>
    /\ pc[c] = "upsertHasSourceAt"
    /\ \E fault \in Faults(c) :
         LET insert == WithID(call[c].create, NewUUIDs(UsedIDs, 1)[1])
             r      == upsertHasSourceAtID(HsaView(c), SrcView(c), insert,
                                           call[c].arg.pkgMatchType, fault)
         IN  /\ fault \/ ~HsaWaits(c, {insert})
             /\ IF r.err # "none"
                THEN Rollback(c, "IngestHasSourceAt", call[c].arg, r.err, 0)
                ELSE ToCommit(c, "IngestHasSourceAt", call[c].arg,
                              toGlobalID(hassourceatTable, r.id), {}, r.rows)

(***************************************************************************)
(* IngestHasSourceAts.                                                     *)
(***************************************************************************)
HasSourceAtsArgs(items, pkgMatchType) ==
    [ pkgs         |-> [i \in 1..Len(items) |-> items[i][1]],
      sources      |-> [i \in 1..Len(items) |-> items[i][2]],
      hasSourceAts |-> [i \in 1..Len(items) |-> items[i][3]],
      pkgMatchType |-> pkgMatchType ]

\* the records the lists of a bulk call are built from
BulkHsaItems ==
    { <<IDorPkgInput(NoGID, NoGID, PkgP), SrcRef(SourceAID, NoSourceInput), E1>>,
      <<IDorPkgInput(PkgNameGID, PkgVersionGID, NoPkgInput), SrcRef(NoGID, SourceA), E1z>>,
      <<IDorPkgInput(PkgNameGID, NoGID, PkgP), SrcRef(SourceAID, NoSourceInput), E1z>>,
      <<NilPkg, SrcRef(SourceAID, NoSourceInput), E1>> }

IngestHasSourceAtsArgs ==
    { HasSourceAtsArgs(items, m) : items \in NonEmptySeqs(BulkHsaItems, MaxLen), m \in PkgMatchType }

\* the arguments of the evidence calls that follow source ingestion
FewHasSourceAtArgs ==
    { HasSourceAtArgs(p, m, SrcRef(NoGID, SourceA), E1) :
        p \in { IDorPkgInput(NoGID, NoGID, PkgP), IDorPkgInput(BadGID, BadGID, PkgP) },
        m \in PkgMatchType }

FewHasSourceAtsArgs ==
    { HasSourceAtsArgs(items, m) :
        items \in NonEmptySeqs({ <<IDorPkgInput(NoGID, NoGID, PkgP), SrcRef(NoGID, SourceA), E1>>,
                                 <<IDorPkgInput(NoGID, NoGID, PkgP), SrcRef(NoGID, SourceA), E1z>> },
                               MaxLen),
        m \in PkgMatchType }

\* the arguments of bulk calls whose records differ from position to
\* position in package, source and evidence
AlignedHasSourceAtsArgs ==
    { HasSourceAtsArgs(items, m) :
        items \in NonEmptySeqs({ <<IDorPkgInput(PkgNameGID, PkgVersionGID, NoPkgInput),
                                   SrcRef(SourceAID, NoSourceInput), E1>>,
                                 <<IDorPkgInput(NoGID, NoGID, PkgP),
                                   SrcRef(SourceBID, NoSourceInput), E2>> },
                               MaxLen),
        m \in PkgMatchType }

IngestHasSourceAts(c, Args) ==
    /\ UNCHANGED <<collectorVars, mar>>
    /\ pc[c] = "idle"
    /\ \E a \in Args :
         call' = [call EXCEPT ![c] = [op |-> "IngestHasSourceAts", ctx |-> "live", conc |-> FALSE,
                                      arg |-> a,
                                      batch |-> 1, failed |-> 0, index |-> 0, ids |-> <<>>]]
    /\ pc' = [pc EXCEPT ![c] = "upsertBulkHasSourceAts"]
    /\ res' = [res EXCEPT ![c] = NoRes]
    /\ UNCHANGED <<srcStore, hsaStore, tx>>

\* MUTANT of upsertBulkHasSourceAtsBatch: the index into the package and
\* source lists starts again at the head of the lists in every batch
upsertBulkHasSourceAtsBatchIndexReset(view, srcView, fresh, a, hsas, index, fault) ==
    LET gen      == [i \in 1..Len(hsas) |->
                       generateHasSourceAtCreate(srcView, a.pkgs[i], a.sources[i],
                                                 a.pkgMatchType, hsas[i])]
        failed   == { i \in 1..Len(hsas) : gen[i].err # "none" }
        creates  == [i \in 1..Len(hsas) |-> WithID(gen[i].create, fresh[i])]
        conflict == HasSourceAtConflict(a.pkgMatchType)
        ins      == Exec(fault, HasSourceAtInsert(view, srcView, creates,
                                                  conflict.columns, conflict.where))
    IN  IF failed # {}
        THEN [err |-> gen[CHOOSE i \in failed : \A j \in failed : i <= j].err,
              rows |-> {}, creates |-> <<>>]
        ELSE [err |-> ins.err, rows |-> ins.rows, creates |-> creates]

\* one turn of the loop over the batches: hsas is the batch, index the number
\* of records of the batches before it
upsertBulkHasSourceAtsBatch(view, srcView, fresh, a, hsas, index, fault) ==
    LET gen      == [i \in 1..Len(hsas) |->
                       generateHasSourceAtCreate(srcView, a.pkgs[index + i], a.sources[index + i],
                                                 a.pkgMatchType, hsas[i])]
        failed   == { i \in 1..Len(hsas) : gen[i].err # "none" }
        creates  == [i \in 1..Len(hsas) |-> WithID(gen[i].create, fresh[i])]
        conflict == HasSourceAtConflict(a.pkgMatchType)
        ins      == Exec(fault, HasSourceAtInsert(view, srcView, creates,
                                                  conflict.columns, conflict.where))
    IN  IF failed # {}
        THEN [err |-> gen[CHOOSE i \in failed : \A j \in failed : i <= j].err,
              rows |-> {}, creates |-> <<>>]
        ELSE [err |-> ins.err, rows |-> ins.rows, creates |-> creates]

\* MUTANT of upsertBulkHasSourceAts: the records are not chunked, the whole
\* list is issued as one statement
upsertBulkHasSourceAtsUnchunked(c) ==
    /\ UNCHANGED <<collectorVars, mar>>
    /\ pc[c] = "upsertBulkHasSourceAts"
    /\ \E fault \in Faults(c) :
         LET a    == call[c].arg
             hsas == a.hasSourceAts
             r    == upsertBulkHasSourceAtsBatch(HsaView(c), SrcView(c),
                         NewUUIDs(UsedIDs, Len(hsas)), a, hsas, call[c].index, fault)
         IN  /\ fault \/ ~HsaWaits(c, SeqToSet(r.creates))
             /\ IF r.err # "none"
                THEN Rollback(c, "IngestHasSourceAts", a.hasSourceAts, r.err, 1)
                ELSE ToCommit(c, "IngestHasSourceAts", a.hasSourceAts,
                              [i \in 1..Len(call[c].ids) |->
                                  toGlobalID(hassourceatTable, call[c].ids[i])],
                              {}, r.rows)

upsertBulkHasSourceAts(c) ==
    /\ UNCHANGED <<collectorVars, mar>>
    /\ pc[c] = "upsertBulkHasSourceAts"
    /\ \E fault \in Faults(c) :
         LET a       == call[c].arg
             batches == chunk(a.hasSourceAts, MaxBatchSize)
             k       == call[c].batch
             hsas    == batches[k]
             r       == upsertBulkHasSourceAtsBatch(HsaView(c), SrcView(c),
                            NewUUIDs(UsedIDs, Len(hsas)), a, hsas, call[c].index, fault)
         IN  /\ fault \/ ~HsaWaits(c, SeqToSet(r.creates))
             /\ IF r.err # "none"
                THEN Rollback(c, "IngestHasSourceAts", a.hasSourceAts, r.err, k)
                ELSE IF k < Len(batches)
                THEN /\ tx' = [tx EXCEPT ![c].hsa = @ \cup r.rows]
                     /\ call' = [call EXCEPT ![c].batch = k + 1,
                                             ![c].index = @ + Len(hsas)]
                     /\ UNCHANGED <<srcStore, hsaStore, pc, res>>
                ELSE ToCommit(c, "IngestHasSourceAts", a.hasSourceAts,
                              [i \in 1..Len(call[c].ids) |->
                                  toGlobalID(hassourceatTable, call[c].ids[i])],
                              {}, r.rows)

(***************************************************************************)
(* Queries and the projection of stored rows.                              *)
(***************************************************************************)
\* a pointer argument: nil, or the value it points to
Ptr(v) == [isNil |-> FALSE, v |-> v]
Nil(v) == [isNil |-> TRUE, v |-> v]

\* filter = &model.SourceSpec{}: the filter with no field set
EmptySourceSpec == SourceSpec(NoGID, NoFilter, NoFilter, NoFilter, NoFilter, NoFilter)

\* toModelSource: one namespace holding one name; an empty tag or commit
\* leaves the pointer of the name nil
toModelSource(s) ==
    [ ID         |-> toGlobalID(srcTypeString, s.id),
      Type       |-> s.type,
      Namespaces |-> << [ ID        |-> toGlobalID(srcNamespaceString, s.id),
                          Namespace |-> s.namespace,
                          Names     |-> << [ ID     |-> toGlobalID(sourcenameTable, s.id),
                                             Name   |-> s.name,
                                             Tag    |-> IF s.tag # "" THEN s.tag ELSE NoStr,
                                             Commit |-> IF s.commit # "" THEN s.commit ELSE NoStr ] >> ] >> ]

toModelSourceName(s) == toModelSource(s)

\* MUTANT of Limit: the statement carries no LIMIT clause
LimitNone(matching, limit) == { matching }

\* Limit(MaxPageSize).All(ctx): the pages the statement may return, the
\* query naming no order: every choice of at most limit matching rows that
\* leaves a row out only when the page is full
Limit(matching, limit) ==
    { page \in SUBSET matching :
        Cardinality(page) = (IF Cardinality(matching) > limit THEN limit ELSE Cardinality(matching)) }

\* what a query call returns: the error, and the records of the returned
\* list (page)
QueryReturned(op, filter, err, page) ==
    [NoRes EXCEPT !.op = op, !.arg = filter, !.err = err, !.page = page]

\* the filters of the Sources calls
SourcesArgs ==
    { Nil(EmptySourceSpec),
      Ptr(EmptySourceSpec),
      Ptr(SourceSpec(SourceAID, NoFilter, NoFilter, NoFilter, NoFilter, NoFilter)),
      Ptr(SourceSpec(NoGID, "git", NoFilter, "a", NoFilter, NoFilter)),
      Ptr(SourceSpec(NoGID, "svn", NoFilter, NoFilter, NoFilter, NoFilter)),
      Ptr(SourceSpec(NoGID, NoFilter, "ns", "b", NoFilter, "ab")),
      Ptr(SourceSpec(NoGID, NoFilter, "other", NoFilter, NoFilter, NoFilter)),
      Ptr(SourceSpec(NoGID, NoFilter, NoFilter, NoFilter, NoFilter, "AB")),
      Ptr(SourceSpec(NoGID, NoFilter, NoFilter, NoFilter, "", NoFilter)),
      Ptr(SourceSpec(NoGID, NoFilter, NoFilter, NoFilter, "t", NoFilter)),
      Ptr(SourceSpec(SourceAID, NoFilter, NoFilter, "b", NoFilter, NoFilter)) }

\* MUTANT of Sources: the returned rows are taken out of the store
SourcesTake(c) ==
    /\ UNCHANGED <<collectorVars, mar>>
    /\ pc[c] = "idle"
    /\ \E arg \in SourcesArgs :
         LET filter   == IF arg.isNil THEN EmptySourceSpec ELSE arg.v
             matching == { r \in srcStore : sourceQuery(filter, r) }
         IN  \E records \in Limit(matching, MaxPageSize) :
                /\ res' = [res EXCEPT ![c] =
                             QueryReturned("Sources", arg, "none",
                                           { toModelSourceName(r) : r \in records })]
                /\ srcStore' = srcStore \ records
    /\ UNCHANGED <<hsaStore, pc, call, tx>>

\* Sources: the stored sources the filter matches, at most MaxPageSize of them
Sources(c) ==
    /\ UNCHANGED <<collectorVars, mar>>
    /\ pc[c] = "idle"
    /\ \E arg \in SourcesArgs, fault \in BOOLEAN :
         LET filter   == IF arg.isNil THEN EmptySourceSpec ELSE arg.v
             matching == { r \in srcStore : sourceQuery(filter, r) }
         IN  \E records \in Limit(matching, MaxPageSize) :
                res' = [res EXCEPT ![c] =
                          IF fault THEN QueryReturned("Sources", arg, "fault", {})
                          ELSE QueryReturned("Sources", arg, "none",
                                             { toModelSourceName(r) : r \in records })]
    /\ UNCHANGED <<srcStore, hsaStore, pc, call, tx>>

\* model.PkgSpec, the fields the package tables of the model hold
PkgSpec(name, version) == [Name |-> name, Version |-> version]
EmptyPkgSpec == PkgSpec(NoFilter, NoFilter)

\* pkgNameQueryFromPkgSpec: the filter without its fields of the version level
pkgNameQueryFromPkgSpec(filter) == PkgSpec(filter.Name, NoFilter)

\* packageNameQuery / packageVersionQuery: the conjunction of the predicates
\* of the fields that are set, a version matching by its name as well
packageNameQuery(filter, nameRow) ==
    filter.Name = NoFilter \/ filter.Name = nameRow.name

packageVersionQuery(filter, versionRow) ==
    /\ filter.Version = NoFilter \/ filter.Version = versionRow.version
    /\ \E n \in pkgNameStore : n.id = versionRow.name_id /\ packageNameQuery(filter, n)

\* model.HasSourceAtSpec; NoTime is the nil KnownSince
NoTime == Time(-1, "")
HasSourceAtSpec(id, package, source, justification, knownSince) ==
    [ ID |-> id, Package |-> package, Source |-> source, Justification |-> justification,
      KnownSince |-> knownSince, Origin |-> NoFilter, Collector |-> NoFilter,
      DocumentRef |-> NoFilter ]
EmptyHasSourceAtSpec ==
    HasSourceAtSpec(NoGID, Nil(EmptyPkgSpec), Nil(EmptySourceSpec), NoFilter, NoTime)

\* MUTANT of hasSourceAtQuery: a package filter matches through the version
\* the row is bound to only
hasSourceAtQueryVersionOnly(filter, row) ==
    /\ filter.ID = NoGID \/ fromGlobalID(filter.ID).id = row.id
    /\ filter.Collector = NoFilter \/ filter.Collector = row.collector
    /\ filter.Origin = NoFilter \/ filter.Origin = row.origin
    /\ filter.DocumentRef = NoFilter \/ filter.DocumentRef = row.document_ref
    /\ filter.Justification = NoFilter \/ filter.Justification = row.justification
    /\ filter.KnownSince = NoTime \/ filter.KnownSince.t = row.known_since.t
    /\ \/ filter.Package.isNil
       \/ \E v \in pkgVersionStore :
             v.id = row.package_version_id /\ packageVersionQuery(filter.Package.v, v)
    /\ \/ filter.Source.isNil
       \/ \E s \in srcStore : s.id = row.source_id /\ sourceQuery(filter.Source.v, s)

\* hasSourceAtQuery: the conjunction of the predicates of the fields that are
\* set; KnownSinceEQ compares the instants for equality; a package filter
\* matches through the name the row is bound to or through its version
hasSourceAtQuery(filter, row) ==
    /\ filter.ID = NoGID \/ fromGlobalID(filter.ID).id = row.id
    /\ filter.Collector = NoFilter \/ filter.Collector = row.collector
    /\ filter.Origin = NoFilter \/ filter.Origin = row.origin
    /\ filter.DocumentRef = NoFilter \/ filter.DocumentRef = row.document_ref
    /\ filter.Justification = NoFilter \/ filter.Justification = row.justification
    /\ filter.KnownSince = NoTime \/ filter.KnownSince.t = row.known_since.t
    /\ \/ filter.Package.isNil
       \/ \E n \in pkgNameStore :
             /\ n.id = row.package_name_id
             /\ packageNameQuery(pkgNameQueryFromPkgSpec(filter.Package.v), n)
       \/ \E v \in pkgVersionStore :
             v.id = row.package_version_id /\ packageVersionQuery(filter.Package.v, v)
    /\ \/ filter.Source.isNil
       \/ \E s \in srcStore : s.id = row.source_id /\ sourceQuery(filter.Source.v, s)

\* toModelPackage: the nested shape of a package, one namespace holding one
\* name; backReferencePackageVersion hangs the version under its name,
\* backReferencePackageName gives the name with no version loaded
pkgTypeOf == "pkgtype"
pkgNamespaceOf == "pkgns"
toModelPackage(nameRow, versionRows) ==
    [ Type       |-> pkgTypeOf,
      Namespaces |-> << [ Namespace |-> pkgNamespaceOf,
                          Names     |-> << [ ID       |-> toGlobalID(packagenameTable, nameRow.id),
                                             Name     |-> nameRow.name,
                                             Versions |-> versionRows ] >> ] >> ]

toModelPackageVersion(v) ==
    [ID |-> toGlobalID(packageversionTable, v.id), Version |-> v.version]

backReferencePackageVersion(v) ==
    toModelPackage(CHOOSE n \in pkgNameStore : n.id = v.name_id, <<toModelPackageVersion(v)>>)

backReferencePackageName(n) == toModelPackage(n, <<>>)

\* getHasSourceAtObject: the edges loaded with a record (nil for a null column)
EdgesPackageVersion(record) == { v \in pkgVersionStore : v.id = record.package_version_id }
EdgesAllVersions(record) == { n \in pkgNameStore : n.id = record.package_name_id }
EdgesSource(record) == { s \in srcStore : s.id = record.source_id }

\* MUTANT of toModelHasSourceAt: the name of a record bound to all versions
\* is projected with the versions stored for it
toModelHasSourceAtStoredVersions(record) ==
    LET pv  == EdgesPackageVersion(record)
        all == CHOOSE n \in EdgesAllVersions(record) : TRUE
        pkg == IF pv # {}
               THEN backReferencePackageVersion(CHOOSE v \in pv : TRUE)
               ELSE toModelPackage(all, << toModelPackageVersion(
                                             CHOOSE v \in pkgVersionStore : v.name_id = all.id) >>)
    IN  [ Source        |-> toModelSourceName(CHOOSE s \in EdgesSource(record) : TRUE),
          Package       |-> pkg,
          ID            |-> toGlobalID(hassourceatTable, record.id),
          KnownSince    |-> record.known_since,
          Justification |-> record.justification,
          Origin        |-> record.origin,
          Collector     |-> record.collector,
          DocumentRef   |-> record.document_ref ]

\* toModelHasSourceAt: the package of a record bound to a version is that
\* version under its name; of a record bound to all versions, the name with
\* an empty version list
toModelHasSourceAt(record) ==
    LET pv  == EdgesPackageVersion(record)
        pkg == IF pv # {}
               THEN backReferencePackageVersion(CHOOSE v \in pv : TRUE)
               ELSE [backReferencePackageName(CHOOSE n \in EdgesAllVersions(record) : TRUE)
                        EXCEPT !.Namespaces[1].Names[1].Versions = <<>>]
    IN  [ Source        |-> toModelSourceName(CHOOSE s \in EdgesSource(record) : TRUE),
          Package       |-> pkg,
          ID            |-> toGlobalID(hassourceatTable, record.id),
          KnownSince    |-> record.known_since,
          Justification |-> record.justification,
          Origin        |-> record.origin,
          Collector     |-> record.collector,
          DocumentRef   |-> record.document_ref ]


\* the evidence the queried stores are built from
QueriedHasSourceAtArgs ==
    { HasSourceAtArgs(IDorPkgInput(PkgNameGID, NoGID, NoPkgInput), ALL_VERSIONS,
                      SrcRef(SourceAID, NoSourceInput), e) : e \in {E1, E2} }
    \cup { HasSourceAtArgs(IDorPkgInput(NoGID, PkgVersionGID, NoPkgInput), SPECIFIC_VERSION,
                           SrcRef(SourceAID, NoSourceInput), e) : e \in {E1, E2} }
    \cup { HasSourceAtArgs(IDorPkgInput(PkgNameGID, NoGID, NoPkgInput), ALL_VERSIONS,
                           SrcRef(SourceBID, NoSourceInput), E1) }

\* the filters of the HasSourceAt calls
HasSourceAtFilters ==
    { Nil(EmptyHasSourceAtSpec),
      Ptr(EmptyHasSourceAtSpec),
      Ptr(HasSourceAtSpec(NoGID, Nil(EmptyPkgSpec), Nil(EmptySourceSpec), NoFilter, Time(1, "UTC"))),
      Ptr(HasSourceAtSpec(NoGID, Nil(EmptyPkgSpec), Nil(EmptySourceSpec), "j", Time(2, "CET"))),
      Ptr(HasSourceAtSpec(NoGID, Nil(EmptyPkgSpec), Nil(EmptySourceSpec), "other", NoTime)),
      Ptr(HasSourceAtSpec(NoGID, Ptr(PkgSpec("p", "1")), Nil(EmptySourceSpec), NoFilter, NoTime)),
      Ptr(HasSourceAtSpec(NoGID, Ptr(PkgSpec("p", "2")), Nil(EmptySourceSpec), NoFilter, NoTime)),
      Ptr(HasSourceAtSpec(NoGID, Nil(EmptyPkgSpec),
                          Ptr(SourceSpec(NoGID, NoFilter, NoFilter, "b", NoFilter, "AB")),
                          NoFilter, Time(1, "UTC"))) }

\* HasSourceAt: the stored evidence the filter matches, at most MaxPageSize
\* records of it, each with its edges loaded
HasSourceAt(c) ==
    /\ UNCHANGED <<collectorVars, mar>>
    /\ pc[c] = "idle"
    /\ \E arg \in HasSourceAtFilters, fault \in BOOLEAN :
         LET filter   == IF arg.isNil THEN EmptyHasSourceAtSpec ELSE arg.v
             matching == { r \in hsaStore : hasSourceAtQuery(filter, r) }
         IN  \E records \in Limit(matching, MaxPageSize) :
                res' = [res EXCEPT ![c] =
                          IF fault THEN QueryReturned("HasSourceAt", arg, "fault", {})
                          ELSE QueryReturned("HasSourceAt", arg, "none",
                                             { toModelHasSourceAt(r) : r \in records })]
    /\ UNCHANGED <<srcStore, hsaStore, pc, call, tx>>

(***************************************************************************)
(* Neighbors of a node.                                                    *)
(***************************************************************************)
\* a node of the returned list: its kind and the identifier of its deepest
\* level
Node(kind, id) == [kind |-> kind, id |-> id]

\* the rows of the other evidence tables that hang on a stored source (their
\* ingestion is not part of this model): source a carries one row of every
\* kind, a certification of type BAD and one of type GOOD among them
SourceEvidence(s) ==
    IF s.name # "a" THEN {}
    ELSE { [table |-> t, type |-> "", id |-> <<s.id, t, "">>] :
             t \in {"scorecards", "occurrences", "has_metadata", "point_of_contacts", "certify_legals"} }
         \cup { [table |-> "certifications", type |-> ty, id |-> <<s.id, "certifications", ty>>] :
                  ty \in {"BAD", "GOOD"} }

\* the toModel function of an evidence row: the node kind it is projected to
NodeKindOf(e) ==
    CASE e.table = "scorecards" -> "CertifyScorecard"
      [] e.table = "occurrences" -> "IsOccurrence"
      [] e.table = "certifications" -> IF e.type = "BAD" THEN "CertifyBad" ELSE "CertifyGood"
      [] e.table = "has_metadata" -> "HasMetadata"
      [] e.table = "point_of_contacts" -> "PointOfContact"
      [] e.table = "certify_legals" -> "CertifyLegal"

\* MUTANT of srcNameNeighbors: every edge of the source is loaded, whatever
\* allowedEdges holds
srcNameNeighborsEager(nodeID, allowedEdges, fault) ==
    LET srcNames == { s \in srcStore : sourceQuery([EmptySourceSpec EXCEPT !.ID = nodeID], s) }
        nodes(s) ==
            (IF "SOURCE_NAME_SOURCE_NAMESPACE" \in allowedEdges
             THEN { Node("Source", toGlobalID(srcNamespaceString, s.id)) } ELSE {})
            \cup { Node("HasSourceAt", toModelHasSourceAt(h).ID) :
                     h \in { r \in hsaStore : r.source_id = s.id } }
            \cup { Node(NodeKindOf(e), toGlobalID(e.table, e.id)) : e \in SourceEvidence(s) }
    IN  IF fault THEN [err |-> "fault", out |-> {}]
        ELSE [err |-> "none", out |-> UNION { nodes(s) : s \in srcNames }]

\* srcNameNeighbors: the source name with the identifier nodeID is queried
\* with the edges that allowedEdges names loaded (of the two calls of
\* WithCertification the later one replaces the earlier); the list holds the
\* namespace of the source when that edge is allowed, and the records of the
\* loaded edges
srcNameNeighbors(nodeID, allowedEdges, fault) ==
    LET srcNames == { s \in srcStore : sourceQuery([EmptySourceSpec EXCEPT !.ID = nodeID], s) }
        withTables ==
            { t \in {"scorecards", "occurrences", "certifications", "has_metadata",
                     "point_of_contacts", "certify_legals"} :
                \/ t = "scorecards" /\ "SOURCE_CERTIFY_SCORECARD" \in allowedEdges
                \/ t = "occurrences" /\ "SOURCE_IS_OCCURRENCE" \in allowedEdges
                \/ t = "certifications" /\ "SOURCE_CERTIFY_BAD" \in allowedEdges
                \/ t = "certifications" /\ "SOURCE_CERTIFY_GOOD" \in allowedEdges
                \/ t = "has_metadata" /\ "SOURCE_HAS_METADATA" \in allowedEdges
                \/ t = "point_of_contacts" /\ "SOURCE_POINT_OF_CONTACT" \in allowedEdges
                \/ t = "certify_legals" /\ "SOURCE_CERTIFY_LEGAL" \in allowedEdges }
        certificationType ==
            IF "SOURCE_CERTIFY_GOOD" \in allowedEdges THEN "GOOD" ELSE "BAD"
        loaded(s) ==
            { e \in SourceEvidence(s) :
                /\ e.table \in withTables
                /\ e.table = "certifications" => e.type = certificationType }
        nodes(s) ==
            (IF "SOURCE_NAME_SOURCE_NAMESPACE" \in allowedEdges
             THEN { Node("Source", toGlobalID(srcNamespaceString, s.id)) } ELSE {})
            \cup (IF "SOURCE_HAS_SOURCE_AT" \in allowedEdges
                  THEN { Node("HasSourceAt", toModelHasSourceAt(h).ID) :
                           h \in { r \in hsaStore : r.source_id = s.id } }
                  ELSE {})
            \cup { Node(NodeKindOf(e), toGlobalID(e.table, e.id)) : e \in loaded(s) }
    IN  IF fault THEN [err |-> "fault", out |-> {}]
        ELSE [err |-> "none", out |-> UNION { nodes(s) : s \in srcNames }]

\* srcNamespaceNeighbors: the names and the type of the queried namespace
srcNamespaceNeighbors(nodeID, allowedEdges, fault) ==
    LET srcNames == { s \in srcStore : sourceQuery([EmptySourceSpec EXCEPT !.ID = nodeID], s) }
        nodes(s) ==
            (IF "SOURCE_NAMESPACE_SOURCE_NAME" \in allowedEdges
             THEN { Node("Source", toGlobalID(sourcenameTable, s.id)) } ELSE {})
            \cup (IF "SOURCE_NAMESPACE_SOURCE_TYPE" \in allowedEdges
                  THEN { Node("Source", toGlobalID(srcTypeString, s.id)) } ELSE {})
    IN  IF fault THEN [err |-> "fault", out |-> {}]
        ELSE [err |-> "none", out |-> UNION { nodes(s) : s \in srcNames }]

\* srcTypeNeighbors: the namespace of the queried type; with the edge not
\* allowed no statement is issued
srcTypeNeighbors(nodeID, allowedEdges, fault) ==
    LET srcNames == { s \in srcStore : sourceQuery([EmptySourceSpec EXCEPT !.ID = nodeID], s) }
    IN  IF "SOURCE_TYPE_SOURCE_NAMESPACE" \notin allowedEdges THEN [err |-> "none", out |-> {}]
        ELSE IF fault THEN [err |-> "fault", out |-> {}]
        ELSE [err |-> "none",
              out |-> { Node("Source", toGlobalID(srcNamespaceString, s.id)) : s \in srcNames }]

\* hasSourceAtNeighbors: the package and the source of the queried evidence
\* record, each when its edge is allowed
hasSourceAtNeighbors(nodeID, allowedEdges, fault) ==
    LET hasSourceAts ==
            { r \in hsaStore : hasSourceAtQuery([EmptyHasSourceAtSpec EXCEPT !.ID = nodeID], r) }
        nodes(hs) ==
            (IF "HAS_SOURCE_AT_PACKAGE" \in allowedEdges
             THEN { Node("Package", toGlobalID(packageversionTable, v.id)) :
                      v \in EdgesPackageVersion(hs) }
                  \cup { Node("Package", toGlobalID(packagenameTable, n.id)) :
                           n \in EdgesAllVersions(hs) }
             ELSE {})
            \cup (IF "HAS_SOURCE_AT_SOURCE" \in allowedEdges
                  THEN { Node("Source", toGlobalID(sourcenameTable, s.id)) : s \in EdgesSource(hs) }
                  ELSE {})
    IN  IF fault THEN [err |-> "fault", out |-> {}]
        ELSE [err |-> "none", out |-> UNION { nodes(hs) : hs \in hasSourceAts }]

\* the edges each neighbor call looks at
EdgesOf(op) ==
    CASE op = "srcNameNeighbors" ->
           { "SOURCE_HAS_SOURCE_AT", "SOURCE_CERTIFY_SCORECARD", "SOURCE_IS_OCCURRENCE",
             "SOURCE_CERTIFY_BAD", "SOURCE_CERTIFY_GOOD", "SOURCE_HAS_METADATA",
             "SOURCE_POINT_OF_CONTACT", "SOURCE_CERTIFY_LEGAL", "SOURCE_NAME_SOURCE_NAMESPACE" }
      [] op = "srcNamespaceNeighbors" ->
           { "SOURCE_NAMESPACE_SOURCE_NAME", "SOURCE_NAMESPACE_SOURCE_TYPE" }
      [] op = "srcTypeNeighbors" -> { "SOURCE_TYPE_SOURCE_NAMESPACE" }
      [] op = "hasSourceAtNeighbors" -> { "HAS_SOURCE_AT_PACKAGE", "HAS_SOURCE_AT_SOURCE" }

\* the edge sets of the calls: none, every single edge of the call, the two
\* certification edges, all edges of the call, and an edge of another call
AllowedEdgeSets(op) ==
    { {}, EdgesOf(op), {"SOURCE_CERTIFY_BAD", "SOURCE_CERTIFY_GOOD"}, {"PACKAGE_TYPE_PACKAGE_NAMESPACE"} }
    \cup { {e} : e \in EdgesOf(op) }

\* a neighbor call on a node of the given table, a stored one or one that is
\* not stored
Neighbors(c, op, table) ==
    /\ UNCHANGED <<collectorVars, mar>>
    /\ pc[c] = "idle"
    /\ \E allowedEdges \in AllowedEdgeSets(op), fault \in BOOLEAN :
       \E nodeID \in { toGlobalID(table, r.id) :
                        r \in IF table = hassourceatTable THEN hsaStore ELSE srcStore }
                     \cup { toGlobalID(table, NullID) } :
         LET r == CASE op = "srcNameNeighbors" -> srcNameNeighbors(nodeID, allowedEdges, fault)
                    [] op = "srcNamespaceNeighbors" -> srcNamespaceNeighbors(nodeID, allowedEdges, fault)
                    [] op = "srcTypeNeighbors" -> srcTypeNeighbors(nodeID, allowedEdges, fault)
                    [] op = "hasSourceAtNeighbors" -> hasSourceAtNeighbors(nodeID, allowedEdges, fault)
         IN  res' = [res EXCEPT ![c] =
                       QueryReturned(op, [nodeID |-> nodeID, allowedEdges |-> allowedEdges],
                                     r.err, r.out)]
    /\ UNCHANGED <<srcStore, hsaStore, pc, call, tx>>

(***************************************************************************)
(* The file collector (RetrieveArtifacts).                                 *)
(***************************************************************************)
\* the tree under the collector's path: directory d holds file d/a and
\* directory d/s, which holds file d/s/b
DirPaths == {"d", "d/s"}
FilePaths == {"d/a", "d/s/b"}

\* os.ReadDir: the entries of a directory that exist, sorted by name
ReadDir(dir) ==
    LET entries == IF dir = "d" THEN <<"d/a", "d/s">> ELSE <<"d/s/b">>
    IN  SelectSeq(entries, LAMBDA p : p \in DirPaths \/ files[p].exists)

NoFile == [exists |-> FALSE, modTime |-> 0, content |-> 0]
NoDoc == [Source |-> "", Blob |-> 0]

\* the collector's fields and the position of its RetrieveArtifacts call;
\* lastChecked starts as the zero time
NewFileCollector(path, poll) ==
    [ pc |-> "new", path |-> path, poll |-> poll, ctx |-> "live", lastChecked |-> 0,
      walk |-> <<>>, doc |-> NoDoc, err |-> "" ]

returnError(err) == [fc EXCEPT !.pc = "returned", !.err = err, !.walk = <<>>]

\* MUTANT of RetrieveArtifacts: a path that does not exist is nothing to
\* collect, the call returns nil
RetrieveArtifactsMissingIsEmpty ==
    /\ fc.pc = "new"
    /\ fc' = IF fc.path \notin DirPaths THEN returnError("")
             ELSE [fc EXCEPT !.pc = "walk", !.walk = <<fc.path>>]
    /\ UNCHANGED <<storeVars, mar, files, now, docs>>

\* RetrieveArtifacts up to the first walk: os.Stat of the path
RetrieveArtifacts ==
    /\ fc.pc = "new"
    /\ fc' = IF fc.path \notin DirPaths THEN returnError("path does not exist")
             ELSE [fc EXCEPT !.pc = "walk", !.walk = <<fc.path>>]
    /\ UNCHANGED <<storeVars, mar, files, now, docs>>

\* MUTANT of readFunc: a directory is read and sent like a file
readFuncNoDirCheck ==
    /\ fc.pc = "walk" /\ fc.walk # <<>>
    /\ LET path == Head(fc.walk)
           rest == (IF path \in DirPaths THEN ReadDir(path) ELSE <<>>) \o Tail(fc.walk)
       IN  \E fault \in BOOLEAN :
             fc' = IF fc.ctx = "cancelled" THEN returnError("context canceled")
                   ELSE IF fault THEN returnError("error reading file")
                   ELSE IF path \in FilePaths /\ ~(files[path].modTime > fc.lastChecked)
                   THEN [fc EXCEPT !.walk = rest]
                   ELSE [fc EXCEPT !.pc = "send", !.walk = rest,
                                   !.doc = [Source |-> path,
                                            Blob |-> IF path \in FilePaths
                                                     THEN files[path].content ELSE 0]]
    /\ UNCHANGED <<storeVars, mar, files, now, docs>>

\* MUTANT of readFunc: the modification time is not compared with
\* lastChecked, every file is read and sent in every walk
readFuncEveryWalk ==
    /\ fc.pc = "walk" /\ fc.walk # <<>>
    /\ LET path == Head(fc.walk)
           rest == (IF path \in DirPaths THEN ReadDir(path) ELSE <<>>) \o Tail(fc.walk)
       IN  \E fault \in BOOLEAN :
             fc' = IF fc.ctx = "cancelled" THEN returnError("context canceled")
                   ELSE IF path \in DirPaths THEN [fc EXCEPT !.walk = rest]
                   ELSE IF ~files[path].exists THEN [fc EXCEPT !.walk = rest]
                   ELSE IF fault THEN returnError("error reading file")
                   ELSE [fc EXCEPT !.pc = "send", !.walk = rest,
                                   !.doc = [Source |-> path, Blob |-> files[path].content]]
    /\ UNCHANGED <<storeVars, mar, files, now, docs>>

\* readFunc, called by filepath.WalkDir for the next entry of the walk: a
\* directory is passed over and its entries are walked next; a file that
\* was modified after lastChecked is read and its document is handed to the
\* channel
readFunc ==
    /\ fc.pc = "walk" /\ fc.walk # <<>>
    /\ LET path == Head(fc.walk)
           rest == (IF path \in DirPaths THEN ReadDir(path) ELSE <<>>) \o Tail(fc.walk)
       IN  \E fault \in BOOLEAN :
             fc' = IF fc.ctx = "cancelled" THEN returnError("context canceled")
                   ELSE IF path \in DirPaths THEN [fc EXCEPT !.walk = rest]
                   ELSE IF ~(files[path].modTime > fc.lastChecked) THEN [fc EXCEPT !.walk = rest]
                   ELSE IF fault THEN returnError("error reading file")
                   ELSE [fc EXCEPT !.pc = "send", !.walk = rest,
                                   !.doc = [Source |-> path, Blob |-> files[path].content]]
    /\ UNCHANGED <<storeVars, mar, files, now, docs>>

\* docChannel <- doc: the send blocks until the consumer receives
docChannelReceive ==
    /\ fc.pc = "send"
    /\ docs' = Append(docs, fc.doc)
    /\ fc' = [fc EXCEPT !.pc = "walk", !.doc = NoDoc]
    /\ UNCHANGED <<storeVars, mar, files, now>>

\* filepath.WalkDir has returned nil: lastChecked = time.Now(), and without
\* polling RetrieveArtifacts returns nil
WalkDirReturns ==
    /\ fc.pc = "walk" /\ fc.walk = <<>>
    /\ fc' = [fc EXCEPT !.lastChecked = now, !.pc = IF fc.poll THEN "sleep" ELSE "returned"]
    /\ UNCHANGED <<storeVars, mar, files, now, docs>>

\* the select between two walks: the context is done, or the interval is over
PollWait ==
    /\ fc.pc = "sleep"
    /\ \/ fc.ctx = "cancelled" /\ fc' = returnError("context canceled")
       \/ fc' = [fc EXCEPT !.pc = "walk", !.walk = <<fc.path>>]
    /\ UNCHANGED <<storeVars, mar, files, now, docs>>

\* the caller cancels the context of the running call
CancelCollector ==
    /\ fc.pc \in {"walk", "send", "sleep"}
    /\ fc.ctx = "live"
    /\ fc' = [fc EXCEPT !.ctx = "cancelled"]
    /\ UNCHANGED <<storeVars, mar, files, now, docs>>

\* another process creates or modifies a file under the path
WriteFile ==
    /\ \E path \in FilePaths :
         /\ files[path].content < MaxWrites
         /\ files' = [files EXCEPT ![path] =
                        [exists |-> TRUE, modTime |-> now, content |-> files[path].content + 1]]
    /\ UNCHANGED <<storeVars, mar, now, fc, docs>>

\* time passes
Tick ==
    /\ now < MaxTime
    /\ now' = now + 1
    /\ UNCHANGED <<storeVars, mar, files, fc, docs>>

(***************************************************************************)
(* Marshalling of a list of CertifyVuln nodes into a GraphQL response.     *)
(* The list marshaller starts one goroutine per element (or calls the      *)
(* closure f directly when the list has one element), waits on a WaitGroup *)
(* and then scans the entries.  The goroutines and the marshaller share    *)
(* the variable ret without any lock: every interleaving of their steps is *)
(* an outcome of the program.                                              *)
(***************************************************************************)
\* longest list of nodes handed to the list marshaller
MaxElems == 2

\* graphql.Null, the nil Marshaler of an entry nobody wrote, and the
\* outcome of a call that panicked
Null == [kind |-> "null", fields |-> {}]
Unfilled == [kind |-> "unfilled", fields |-> {}]
Panic == [kind |-> "panic", fields |-> {}]
\* a marshalled object: its selected fields and their values
FieldSet(fields) == [kind |-> "object", fields |-> fields]
\* the value of ret: the nil Array, or an array of entries
NilArray == [nil |-> TRUE, a |-> <<>>]
Array(a) == [nil |-> FALSE, a |-> a]
\* a resolved field that is null, and a field whose resolver panics
NullField == "nullField"
PanicField == "panicField"

CertifyVulnFields == <<"id", "package", "vulnerability", "metadata">>

\* a *model.CertifyVuln, by what each of its fields resolves to
Vuln(id, package, vulnerability, metadata) ==
    [nil |-> FALSE, id |-> id, package |-> package, vulnerability |-> vulnerability,
     metadata |-> metadata]
\* the nil *model.CertifyVuln
NilElem == [Vuln("", "", "", "") EXCEPT !.nil = TRUE]

VulnElems ==
    { Vuln("1", "p", "v", "m"),
      Vuln("2", "p", "v", "m"),
      Vuln("3", "p", "v", NullField),
      Vuln("4", PanicField, "v", "m"),
      NilElem }

\* the fields the query selects
Selections == { {"id", "package", "vulnerability", "metadata"}, {"id", "package"} }

\* MUTANT of CertifyVuln: a metadata field that resolves to null is not
\* counted in out.Invalids
CertifyVulnMissesMetadata(sel, obj) ==
    LET selected == SelectSeq(CertifyVulnFields, LAMBDA f : f \in sel)
        Invalids == Cardinality({ f \in sel \ {"metadata"} : obj[f] = NullField })
    IN IF \E i \in 1..Len(selected) : obj[selected[i]] = PanicField THEN Panic
       ELSE IF Invalids > 0 THEN Null
       ELSE FieldSet({ <<f, obj[f]>> : f \in sel })

\* _CertifyVuln: the selected fields are resolved in turn; a field that
\* resolves to null is counted in out.Invalids, a resolver that panics
\* unwinds the call, and an object with an invalid field is Null.
CertifyVuln(sel, obj) ==
    LET selected == SelectSeq(CertifyVulnFields, LAMBDA f : f \in sel)
        Invalids == Cardinality({ f \in sel : obj[f] = NullField })
    IN IF \E i \in 1..Len(selected) : obj[selected[i]] = PanicField THEN Panic
       ELSE IF Invalids > 0 THEN Null
       ELSE FieldSet({ <<f, obj[f]>> : f \in sel })

\* marshalNCertifyVuln2 of one element: a nil element is Null
marshalNCertifyVuln2(sel, v) ==
    IF v.nil THEN Null ELSE CertifyVuln(sel, v)

NoMarshal ==
    [pc |-> "none", v |-> <<>>, sel |-> {}, ret |-> NilArray, wg |-> 0, f |-> <<>>,
     errs |-> {}, out |-> [kind |-> "none", a |-> <<>>]]

NewMarshal(v, sel) == [NoMarshal EXCEPT !.pc = "new", !.v = v, !.sel = sel]

isLen1 == Len(mar.v) = 1

\* marshalNCertifyVuln2 of the list, up to wg.Wait: ret is made, the
\* WaitGroup is set to the number of elements unless there is exactly one,
\* and f is started for every element.
marshalNCertifyVuln2List ==
    /\ mar.pc = "new"
    /\ mar' = [mar EXCEPT !.pc = "wait",
                          !.ret = Array([i \in 1..Len(mar.v) |-> Unfilled]),
                          !.wg = IF isLen1 THEN 0 ELSE Len(mar.v),
                          !.f = [i \in 1..Len(mar.v) |-> "run"]]
    /\ UNCHANGED <<storeVars, collectorVars>>

\* f(i), the assignment ret[i] = marshal(v[i]): the element's marshalling
\* may panic, and so does the assignment once ret is nil.
fMarshal ==
    \E i \in DOMAIN mar.f :
        /\ mar.f[i] = "run"
        /\ LET e == marshalNCertifyVuln2(mar.sel, mar.v[i])
           IN IF e = Panic \/ mar.ret = NilArray
              THEN mar' = [mar EXCEPT !.f[i] = "panicked"]
              ELSE mar' = [mar EXCEPT !.f[i] = "marshalled", !.ret.a[i] = e]
        /\ UNCHANGED <<storeVars, collectorVars>>

\* f(i), the deferred wg.Done: deferred last, it runs first, whether f
\* returns or unwinds.  A list of one element defers no wg.Done.
fWgDone ==
    \E i \in DOMAIN mar.f :
        /\ mar.f[i] \in {"marshalled", "panicked"}
        /\ mar' = [mar EXCEPT !.wg = IF isLen1 THEN @ ELSE @ - 1,
                              !.f[i] = IF @ = "panicked" THEN "recover" ELSE "end"]
        /\ UNCHANGED <<storeVars, collectorVars>>

\* f(i), the deferred recover: the panic is recorded as an error and ret
\* is set to nil.
fRecover ==
    \E i \in DOMAIN mar.f :
        /\ mar.f[i] = "recover"
        /\ mar' = [mar EXCEPT !.errs = @ \cup {i}, !.ret = NilArray, !.f[i] = "end"]
        /\ UNCHANGED <<storeVars, collectorVars>>

\* MUTANT of wgWait: the marshaller does not wait for the goroutines
wgWaitNoWait ==
    /\ mar.pc = "wait"
    /\ mar' = [mar EXCEPT !.pc = "range"]
    /\ UNCHANGED <<storeVars, collectorVars>>

\* wg.Wait returns when the counter is zero; the call f(i) of a list of
\* one element has returned by then.
wgWait ==
    /\ mar.pc = "wait"
    /\ IF isLen1 THEN mar.f[1] = "end" ELSE mar.wg = 0
    /\ mar' = [mar EXCEPT !.pc = "range"]
    /\ UNCHANGED <<storeVars, collectorVars>>

\* for _, e := range ret: Null is returned if an entry is Null
rangeRet ==
    /\ mar.pc = "range"
    /\ IF \E i \in DOMAIN mar.ret.a : mar.ret.a[i] = Null
       THEN mar' = [mar EXCEPT !.pc = "returned", !.out = [kind |-> "null", a |-> <<>>]]
       ELSE mar' = [mar EXCEPT !.pc = "return"]
    /\ UNCHANGED <<storeVars, collectorVars>>

\* return ret
returnRet ==
    /\ mar.pc = "return"
    /\ mar' = [mar EXCEPT !.pc = "returned",
                          !.out = [kind |-> IF mar.ret.nil THEN "nilArray" ELSE "array",
                                   a |-> mar.ret.a]]
    /\ UNCHANGED <<storeVars, collectorVars>>

(***************************************************************************)
(* Specifications.                                                         *)
(***************************************************************************)
NoCalls ==
    /\ hsaStore = {}
    /\ mar = NoMarshal
    /\ pc = [c \in Callers |-> "idle"]
    /\ call = [c \in Callers |-> NoCall]
    /\ tx = [c \in Callers |-> NoTx]
    /\ res = [c \in Callers |-> NoRes]

\* no call in progress, no evidence stored, no collector running
Idle ==
    /\ NoCalls
    /\ files = [p \in FilePaths |-> NoFile]
    /\ now = 1
    /\ fc = NewFileCollector("d", FALSE)
    /\ docs = <<>>

\* Source ingestion by concurrent callers, from the empty store.
Init == srcStore = {} /\ Idle

Next ==
    \E c \in Callers :
        \/ IngestSource(c)
        \/ IngestSources(c)
        \/ upsertBulkSource(c)
        \/ WithinTXCommit(c)

Spec == Init /\ [][Next]_vars

\* the source_names rows of sources a, b@ab and b@AB
SourceRow(in) ==
    generateSourceNameCreate(generateUUIDKey(SrcServerKey(in)), IDorSourceInput(NoGID, in))

\* stores that source ingestion leaves behind
IngestedSources ==
    { {},
      { SourceRow(SourceA) },
      { SourceRow(s) : s \in SrcInputs } }

\* Evidence ingestion by one caller, single and bulk, over sources ingested
\* before.
InitHsa == srcStore \in IngestedSources /\ Idle

NextHsa ==
    \/ IngestHasSourceAt("c1", IngestHasSourceAtArgs)
    \/ upsertHasSourceAt("c1")
    \/ IngestHasSourceAts("c1", IngestHasSourceAtsArgs)
    \/ upsertBulkHasSourceAts("c1")
    \/ WithinTXCommit("c1")

SpecHsa == InitHsa /\ [][NextHsa]_vars

\* Bulk ingestion by one caller, of lists that span several batches.
NextBulk ==
    \/ IngestSources("c1")
    \/ upsertBulkSource("c1")
    \/ IngestHasSourceAts("c1", AlignedHasSourceAtsArgs)
    \/ upsertBulkHasSourceAts("c1")
    \/ WithinTXCommit("c1")

SpecBulk == Init /\ [][NextBulk]_vars

\* One caller running every ingestion call, from the empty store.
NextTx ==
    \/ IngestSource("c1")
    \/ IngestSources("c1")
    \/ upsertBulkSource("c1")
    \/ IngestHasSourceAt("c1", FewHasSourceAtArgs)
    \/ upsertHasSourceAt("c1")
    \/ IngestHasSourceAts("c1", FewHasSourceAtsArgs)
    \/ upsertBulkHasSourceAts("c1")
    \/ WithinTXCommit("c1")

SpecTx == Init /\ [][NextTx]_vars

\* One caller running bulk calls whose context it may cancel.
NextCancel ==
    \/ IngestSources("c1")
    \/ upsertBulkSource("c1")
    \/ IngestHasSourceAts("c1", FewHasSourceAtsArgs)
    \/ upsertBulkHasSourceAts("c1")
    \/ WithinTXCommit("c1")
    \/ Cancel("c1")

SpecCancel == Init /\ [][NextCancel]_vars

\* Evidence ingestion by concurrent callers.
NextHsaConc ==
    \E c \in Callers :
        \/ IngestHasSourceAt(c, ConcurrentHasSourceAtArgs)
        \/ upsertHasSourceAt(c)
        \/ WithinTXCommit(c)

InitHsaConc == srcStore = { SourceRow(SourceA) } /\ Idle

SpecHsaConc == InitHsaConc /\ [][NextHsaConc]_vars

\* One caller ingesting evidence and querying what is stored.
NextQuery ==
    \/ IngestHasSourceAt("c1", QueriedHasSourceAtArgs)
    \/ upsertHasSourceAt("c1")
    \/ WithinTXCommit("c1")
    \/ Sources("c1")
    \/ HasSourceAt("c1")

SpecQuery == InitHsa /\ [][NextQuery]_vars

\* One caller ingesting evidence on source a and running every read call.
NextNeighbors ==
    \/ IngestHasSourceAt("c1", { a \in QueriedHasSourceAtArgs :
                                   a.hasSourceAt = E1 /\ a.source.SourceNameID = SourceAID })
    \/ upsertHasSourceAt("c1")
    \/ WithinTXCommit("c1")
    \/ Sources("c1")
    \/ HasSourceAt("c1")
    \/ Neighbors("c1", "srcNameNeighbors", sourcenameTable)
    \/ Neighbors("c1", "srcNamespaceNeighbors", srcNamespaceString)
    \/ Neighbors("c1", "srcTypeNeighbors", srcTypeString)
    \/ Neighbors("c1", "hasSourceAtNeighbors", hassourceatTable)

SpecNeighbors == InitHsa /\ [][NextNeighbors]_vars

\* the trees the collector starts on: each file is there, written once, or not
Trees ==
    { f \in [FilePaths -> {NoFile, [exists |-> TRUE, modTime |-> 1, content |-> 1]}] : TRUE }

\* One run of the collector without polling over a tree that nothing else
\* writes to.
InitCollectOnce ==
    /\ srcStore = {} /\ NoCalls
    /\ files \in Trees
    /\ now = 1
    /\ fc \in { NewFileCollector(path, FALSE) : path \in {"d", "missing"} }
    /\ docs = <<>>

NextCollectOnce ==
    \/ RetrieveArtifacts
    \/ readFunc
    \/ docChannelReceive
    \/ WalkDirReturns
    \/ CancelCollector
    \/ Tick

SpecCollectOnce == InitCollectOnce /\ [][NextCollectOnce]_vars

\* The collector polling a tree that another process writes to.
InitCollector ==
    /\ srcStore = {} /\ NoCalls
    /\ files \in Trees
    /\ now = 1
    /\ fc = NewFileCollector("d", TRUE)
    /\ docs = <<>>

NextCollector ==
    \/ RetrieveArtifacts
    \/ readFunc
    \/ docChannelReceive
    \/ WalkDirReturns
    \/ PollWait
    \/ CancelCollector
    \/ WriteFile
    \/ Tick

SpecCollector == InitCollector /\ [][NextCollector]_vars

\* The collector in either mode, on a path that exists or on one that does
\* not.
InitCollectorAny ==
    /\ srcStore = {} /\ NoCalls
    /\ files \in Trees
    /\ now = 1
    /\ fc \in { NewFileCollector(path, poll) : path \in {"d", "missing"}, poll \in BOOLEAN }
    /\ docs = <<>>

SpecCollectorAny == InitCollectorAny /\ [][NextCollector]_vars

\* The polling collector with its own steps taken whenever they stay
\* possible: the goroutine that runs RetrieveArtifacts is scheduled, while
\* the consumer of the channel, the caller that cancels and the process
\* that writes files are under no obligation.
SpecCollectorLive ==
    /\ SpecCollector
    /\ WF_vars(RetrieveArtifacts)
    /\ WF_vars(readFunc)
    /\ WF_vars(WalkDirReturns)
    /\ WF_vars(PollWait)

\* One call of the list marshaller on a list of nodes, its goroutines
\* scheduled in any order.
InitMarshal ==
    /\ srcStore = {}
    /\ hsaStore = {}
    /\ pc = [c \in Callers |-> "idle"]
    /\ call = [c \in Callers |-> NoCall]
    /\ tx = [c \in Callers |-> NoTx]
    /\ res = [c \in Callers |-> NoRes]
    /\ files = [p \in FilePaths |-> NoFile]
    /\ now = 1
    /\ fc = NewFileCollector("d", FALSE)
    /\ docs = <<>>
    /\ mar \in { NewMarshal(v, sel) :
                    v \in UNION { [1..n -> VulnElems] : n \in 0..MaxElems },
                    sel \in Selections }

NextMarshal ==
    \/ marshalNCertifyVuln2List
    \/ fMarshal
    \/ fWgDone
    \/ fRecover
    \/ wgWait
    \/ rangeRet
    \/ returnRet

SpecMarshal == InitMarshal /\ [][NextMarshal]_vars

(***************************************************************************)
(* Properties of source ingestion.                                         *)
(***************************************************************************)
\* the natural key of a stored source row, an absent tag or commit read as ""
NaturalKey(r) == <<r.type, r.namespace, r.name, stringOrEmpty(r.tag), stringOrEmpty(r.commit)>>

RowsOfSource(in) == { r \in srcStore : NaturalKey(r) = SrcServerKey(in) }

\* C1: whatever IngestSource and IngestSources calls run, alone or
\* concurrently, and however often they repeat a source, the store never
\* holds two source_names rows with the same (type, namespace, name, tag,
\* commit), an absent tag or commit counting as the empty string.
C1_OneRowPerNaturalKey ==
    \A r, q \in srcStore : NaturalKey(r) = NaturalKey(q) => r = q

\* a source was ingested with an absent tag and commit by a single call that
\* has returned, its row is stored, and a bulk call of the other caller that
\* repeats the source is about to commit without
\* having written a second row for it
C1_Witness ==
    /\ res["c1"].op = "IngestSource" /\ res["c1"].err = "none"
    /\ res["c1"].arg.SourceInput = SourceInputSpec("a", NoStr, NoStr)
    /\ Cardinality(RowsOfSource(SourceInputSpec("a", "", ""))) = 1
    /\ pc["c2"] = "commit" /\ call["c2"].op = "IngestSources"
    /\ \E i, j \in 1..Len(call["c2"].arg) :
          /\ i # j
          /\ NaturalKey(generateSourceNameCreate(0, call["c2"].arg[i])) = SrcServerKey(SourceInputSpec("a", "", ""))
          /\ NaturalKey(generateSourceNameCreate(0, call["c2"].arg[j])) = SrcServerKey(SourceInputSpec("a", "", ""))
    /\ \A r \in tx["c2"].src : NaturalKey(r) # SrcServerKey(SourceInputSpec("a", "", ""))

\* C2: IngestSource never fails on a source that is already stored (its only
\* failures are storage faults); a call that returns leaves exactly one row
\* for the source, and two callers that ingested the same source got the
\* same SourceIDs.
C2_IngestSourceIdempotent ==
    \A c \in Callers :
        res[c].op = "IngestSource" =>
            /\ res[c].err \in {"none", "fault"}
            /\ res[c].err = "none" =>
                  /\ Cardinality(RowsOfSource(res[c].arg.SourceInput)) = 1
                  /\ \A d \in Callers :
                        ( /\ res[d].op = "IngestSource" /\ res[d].err = "none"
                          /\ res[d].arg = res[c].arg )
                        => res[d].out = res[c].out

\* both callers have ingested the same source and both calls returned the
\* identifiers of its one row, other sources being stored besides
C2_Witness ==
    /\ res["c1"].op = "IngestSource" /\ res["c1"].err = "none"
    /\ res["c2"].op = "IngestSource" /\ res["c2"].err = "none"
    /\ res["c1"].arg = res["c2"].arg
    /\ res["c1"].out = res["c2"].out
    /\ Cardinality(RowsOfSource(res["c1"].arg.SourceInput)) = 1
    /\ Cardinality(srcStore) >= 2

(***************************************************************************)
(* Properties of evidence ingestion.                                       *)
(***************************************************************************)
\* what identifies a piece of HasSourceAt evidence: its source, its package
\* binding and its fields
EvidenceKey(r) ==
    <<r.source_id, r.package_name_id, r.package_version_id, r.justification,
      r.known_since, r.collector, r.origin, r.document_ref>>

\* C3: whatever IngestHasSourceAt and IngestHasSourceAts calls have run, the
\* store holds at most one has_source_ats row for each (source, package
\* binding, justification, knownSince, collector, origin, documentRef):
\* ingesting evidence again, by either path, adds no row.
C3_OneRowPerEvidence ==
    \A r, q \in hsaStore : EvidenceKey(r) = EvidenceKey(q) => r = q

\* a bulk call of several records is about to commit having written nothing,
\* because every record of it was stored already
C3_Witness ==
    /\ pc["c1"] = "commit" /\ call["c1"].op = "IngestHasSourceAts"
    /\ Len(call["c1"].arg) >= 2
    /\ tx["c1"].hsa = {}
    /\ hsaStore # {}

\* C5: a successful IngestHasSourceAts call returns as many identifiers as it
\* was given evidence records.
C5_OneIDPerRecord ==
    \A c \in Callers :
        (res[c].op = "IngestHasSourceAts" /\ res[c].err = "none") => res[c].m = res[c].n

BothRefs(pkg) == ~pkg.isNil /\ pkg.PackageNameID # NoGID /\ pkg.PackageVersionID # NoGID
NoRefs(pkg) ==
    ~pkg.isNil /\ pkg.PackageNameID = NoGID /\ pkg.PackageVersionID = NoGID
               /\ pkg.PackageInput = NoPkgInput

\* C6: an IngestHasSourceAt call whose package has both the name and the
\* version reference set, or neither, never gets as far as its insert and
\* returns an invalid-input error.
C6_MatchTypeExclusivity ==
    \A c \in Callers :
        /\ (res[c].op = "IngestHasSourceAt" /\ (BothRefs(res[c].arg.pkg) \/ NoRefs(res[c].arg.pkg)))
              => res[c].err = "invalid"
        /\ (call[c].op = "IngestHasSourceAt" /\ pc[c] \in {"upsertHasSourceAt", "commit"})
              => ~(BothRefs(call[c].arg.pkg) \/ NoRefs(call[c].arg.pkg))

\* the package column the match type selects is set and the other is NULL
BoundAs(r, pkgMatchType) ==
    IF pkgMatchType = ALL_VERSIONS
    THEN r.package_name_id # NullID /\ r.package_version_id = NullID
    ELSE r.package_name_id = NullID /\ r.package_version_id # NullID

\* C7: every has_source_ats row, stored or written by a transaction in
\* progress, has exactly one of package_name_id and package_version_id set;
\* the rows and the create of a call in progress have the column of the
\* call's match type: the name under ALL_VERSIONS, the version under
\* SPECIFIC_VERSION.
C7_ExactlyOnePackageColumn ==
    /\ \A r \in hsaStore : BoundAs(r, ALL_VERSIONS) \/ BoundAs(r, SPECIFIC_VERSION)
    /\ \A c \in Callers :
          /\ pc[c] = "upsertHasSourceAt" => BoundAs(call[c].create, call[c].arg.pkgMatchType)
          /\ pc[c] = "upsertBulkHasSourceAts" =>
                \A r \in tx[c].hsa : BoundAs(r, call[c].arg.pkgMatchType)
          /\ (pc[c] = "commit" /\ call[c].op = "IngestHasSourceAt") =>
                \A r \in tx[c].hsa : BoundAs(r, call[c].arg.pkgMatchType)

\* a row bound to the package name is stored, and a SPECIFIC_VERSION call
\* that was given both package identifiers has returned the identifier of a
\* stored row bound to the package version
C7_Witness ==
    /\ \E r \in hsaStore : BoundAs(r, ALL_VERSIONS)
    /\ res["c1"].op = "IngestHasSourceAt" /\ res["c1"].err = "none"
    /\ res["c1"].arg.pkgMatchType = SPECIFIC_VERSION
    /\ res["c1"].arg.pkg.PackageNameID # NoGID
    /\ \E r \in hsaStore :
          /\ res["c1"].out = toGlobalID(hassourceatTable, r.id)
          /\ BoundAs(r, SPECIFIC_VERSION)

\* the stored rows of the evidence of an IngestHasSourceAt call about source
\* a and package p
RowsOfEvidence(a) ==
    { r \in hsaStore :
        /\ r.source_id = fromGlobalID(SourceAID).id
        /\ IF a.pkgMatchType = ALL_VERSIONS
           THEN r.package_name_id = PkgNameP /\ r.package_version_id = NullID
           ELSE r.package_name_id = NullID /\ r.package_version_id = PkgVersionP
        /\ r.justification = a.hasSourceAt.Justification
        /\ r.known_since = UTC(a.hasSourceAt.KnownSince)
        /\ r.collector = a.hasSourceAt.Collector
        /\ r.origin = a.hasSourceAt.Origin
        /\ r.document_ref = a.hasSourceAt.DocumentRef }

ReturnedOK(c, op) == res[c].op = op /\ res[c].err = "none"

\* C4: IngestHasSourceAt calls of concurrent callers fail on storage faults
\* only; when one has returned there is exactly one row for its evidence and
\* the call returned that row's identifier, so that two calls with the same
\* arguments returned the same identifier.
C4_ConcurrentSameID ==
    \A c \in Callers :
        res[c].op = "IngestHasSourceAt" =>
            /\ res[c].err \in {"none", "fault"}
            /\ res[c].err = "none" =>
                  /\ Cardinality(RowsOfEvidence(res[c].arg)) = 1
                  /\ \A r \in RowsOfEvidence(res[c].arg) :
                        res[c].out = toGlobalID(hassourceatTable, r.id)
                  /\ \A d \in Callers :
                        (ReturnedOK(d, "IngestHasSourceAt") /\ res[d].arg = res[c].arg)
                        => res[d].out = res[c].out

\* the second caller began its call while the first was inside a call with
\* the same arguments; both have returned the same identifier and one row is
\* stored
C4_Witness ==
    /\ ReturnedOK("c1", "IngestHasSourceAt") /\ ReturnedOK("c2", "IngestHasSourceAt")
    /\ res["c1"].arg = res["c2"].arg
    /\ res["c2"].conc
    /\ res["c1"].out = res["c2"].out
    /\ Cardinality(hsaStore) = 1

\* C8: when ALL_VERSIONS evidence and SPECIFIC_VERSION evidence with the same
\* source and the same fields have both been ingested, the two calls
\* returned different identifiers and each identifies a row of its own: one
\* bound to the package name, one to the package version.
C8_MatchTypesKeptApart ==
    \A c, d \in Callers :
        ( /\ ReturnedOK(c, "IngestHasSourceAt") /\ ReturnedOK(d, "IngestHasSourceAt")
          /\ res[c].arg.pkgMatchType = ALL_VERSIONS
          /\ res[d].arg.pkgMatchType = SPECIFIC_VERSION
          /\ res[c].arg.source = res[d].arg.source
          /\ res[c].arg.hasSourceAt = res[d].arg.hasSourceAt )
        => /\ res[c].out # res[d].out
           /\ \E r, q \in hsaStore :
                 /\ r # q
                 /\ res[c].out = toGlobalID(hassourceatTable, r.id)
                 /\ res[d].out = toGlobalID(hassourceatTable, q.id)
                 /\ BoundAs(r, ALL_VERSIONS) /\ r.package_name_id = PkgNameP
                 /\ BoundAs(q, SPECIFIC_VERSION) /\ q.package_version_id = PkgVersionP

\* the version-level evidence was stored first (it has the first
\* identifier), the name-level evidence with the same source and fields
\* after it, and the two calls returned different identifiers
C8_Witness ==
    /\ ReturnedOK("c1", "IngestHasSourceAt") /\ ReturnedOK("c2", "IngestHasSourceAt")
    /\ res["c1"].arg.pkgMatchType = ALL_VERSIONS
    /\ res["c2"].arg.pkgMatchType = SPECIFIC_VERSION
    /\ res["c1"].arg.source = res["c2"].arg.source
    /\ res["c1"].arg.hasSourceAt = res["c2"].arg.hasSourceAt
    /\ res["c2"].out = toGlobalID(hassourceatTable, 1)
    /\ res["c1"].out = toGlobalID(hassourceatTable, 2)
    /\ Cardinality(hsaStore) = 2

(***************************************************************************)
(* Properties of the transaction around a call.                            *)
(***************************************************************************)
\* the rows a failed bulk call had written before the batch that failed
WroteBeforeFailure(c) ==
    IF IsBulk(res[c].op) /\ res[c].err # "none" /\ res[c].chunk >= 2 THEN res[c].wrote ELSE {}

OpOfStep(c) ==
    IF call[c].op # "none" THEN call[c].op
    ELSE IF call'[c].op # "none" THEN call'[c].op
    ELSE res'[c].op

StepOf(c) == <<pc[c], call[c], tx[c], res[c]>>' # <<pc[c], call[c], tx[c], res[c]>>

\* the step in which the call's transaction commits and the call returns
\* without error
ReturnsOK(c) == pc[c] = "commit" /\ pc'[c] = "idle" /\ res'[c].err = "none"

C10_ErrorLeavesStore ==
    [][ \A c \in Callers :
          (StepOf(c) /\ OpOfStep(c) \in {"IngestSource", "IngestHasSourceAt"} /\ ~ReturnsOK(c))
          => UNCHANGED <<srcStore, hsaStore>> ]_vars

\* an IngestHasSourceAt call has returned the error of its failed commit; the
\* row its insert had written is not stored
C10_Witness ==
    /\ res["c1"].op = "IngestHasSourceAt" /\ res["c1"].err = "fault"
    /\ res["c1"].wrote # {}
    /\ res["c1"].wrote \cap hsaStore = {}
    /\ srcStore # {}

(***************************************************************************)
(* Properties of input validation and resolution.                          *)
(***************************************************************************)
MissingSource(a) == a.source.SourceNameID = NoGID /\ a.source.SourceInput = NoSourceInput

SuppliedIDs(a) ==
    { g \in {a.source.SourceNameID, a.pkg.PackageNameID, a.pkg.PackageVersionID} : g # NoGID }

UnparsableID(a) == \E g \in SuppliedIDs(a) : uuidParseFails(fromGlobalID(g).id)

\* C11: an IngestHasSourceAt call whose source is missing, whose package is
\* missing, or one of whose supplied identifiers does not parse returns an
\* error and has issued no query when it does.
C11_FailsBeforeIO ==
    \A c \in Callers :
        ( /\ res[c].op = "IngestHasSourceAt"
          /\ (MissingSource(res[c].arg) \/ NoRefs(res[c].arg.pkg) \/ UnparsableID(res[c].arg)) )
        => (res[c].err # "none" /\ res[c].reads = 0)

\* the call names its source by embedded natural key and its package in a
\* way that resolves (a parsable identifier for the match type, or the key of
\* the stored package)
SourceByKey(a) == a.source.SourceNameID = NoGID /\ a.source.SourceInput # NoSourceInput

PackageResolves(a) == ResolvePackage(a.pkg, a.pkgMatchType).err = "none"

\* C12: an IngestHasSourceAt call that names its source by natural key fails
\* on storage faults only, whether or not the source was ingested before, and
\* when it has returned the source and the evidence row are stored.
C12_ResolvesByKey ==
    \A c \in Callers :
        ( /\ res[c].op = "IngestHasSourceAt"
          /\ SourceByKey(res[c].arg) /\ PackageResolves(res[c].arg) )
        => /\ res[c].err \in {"none", "fault"}
           /\ res[c].err = "none" =>
                 /\ RowsOfSource(res[c].arg.source.SourceInput) # {}
                 /\ \E r \in hsaStore : res[c].out = toGlobalID(hassourceatTable, r.id)

(***************************************************************************)
(* Properties of stored rows.                                              *)
(***************************************************************************)
\* every row of the table before the step is a row of it after the step, and
\* the rows the step adds have identifiers no row had
Kept(store) ==
    /\ store \subseteq store'
    /\ \A r \in store' \ store : \A q \in store : q.id # r.id

\* C13: no step of any ingestion call, single or bulk, removes a stored
\* source_names or has_source_ats row or changes its identifier or any of
\* its fields.
C13_RowsNeverChange == [][Kept(srcStore) /\ Kept(hsaStore)]_vars

\* with several sources and both kinds of evidence row stored, a call that
\* ingests stored evidence again is about to commit and has written no row
C13_Witness ==
    /\ Cardinality(srcStore) >= 2
    /\ Cardinality(hsaStore) >= 2
    /\ pc["c1"] = "commit" /\ call["c1"].op = "IngestHasSourceAt"
    /\ tx["c1"].hsa = {}
    /\ \E r \in hsaStore : call["c1"].out = toGlobalID(hassourceatTable, r.id)

(***************************************************************************)
(* Bulk and single source ingestion compared.                              *)
(***************************************************************************)
\* the table and the results after IngestSource has been called, one call
\* after the other and each committed, on the elements of srcs
RECURSIVE SequentialIngestSource(_, _)
SequentialIngestSource(store, srcs) ==
    IF srcs = <<>> THEN [rows |-> store, out |-> <<>>]
    ELSE LET before == SequentialIngestSource(store, SubSeq(srcs, 1, Len(srcs) - 1))
             r      == upsertSource(before.rows, srcs[Len(srcs)], FALSE)
         IN  [rows |-> before.rows \cup r.rows, out |-> Append(before.out, r.out)]

\* C14: when an IngestSources call commits, the table it leaves and the list
\* it returns are those that IngestSource calls on the elements of its list,
\* made one after the other from the store the call started from, leave and
\* return: the i-th SourceIDs of the bulk result are those of the single call
\* on the i-th input.  (One caller: the store the call sees at its commit is
\* the store it started from.)
C14_BulkEqualsSequential ==
    (pc["c1"] = "commit" /\ call["c1"].op = "IngestSources") =>
        LET single == SequentialIngestSource(srcStore, call["c1"].arg)
        IN  /\ srcStore \cup tx["c1"].src = single.rows
            /\ call["c1"].out = single.out

\* a bulk call whose list spans several batches and repeats an input, one of
\* its sources stored before and one new, is about to commit
C14_Witness ==
    /\ pc["c1"] = "commit" /\ call["c1"].op = "IngestSources"
    /\ Len(call["c1"].arg) > MaxBatchSize
    /\ \E i, j \in 1..Len(call["c1"].arg) : i < j /\ call["c1"].arg[i] = call["c1"].arg[j]
    /\ srcStore # {} /\ tx["c1"].src # {}
    /\ Len(call["c1"].out) = Len(call["c1"].arg)

(***************************************************************************)
(* Properties of the loop over the batches of a bulk call.                 *)
(***************************************************************************)
InBulkLoop(c) == pc[c] \in {"upsertBulkSource", "upsertBulkHasSourceAts"}

\* C15: a bulk call that is still in its loop over the batches has had no
\* failed batch: the batch whose statement, or the construction of one of
\* whose records, fails is the last batch the call handles, and the call
\* returns an error naming it.
C15_FailedChunkEndsCall ==
    \A c \in Callers :
        /\ InBulkLoop(c) => (call[c].failed = 0 /\ call[c].batch <= Len(chunk(
                                 IF call[c].op = "IngestSources" THEN call[c].arg
                                 ELSE call[c].arg.hasSourceAts, MaxBatchSize)))
        /\ (IsBulk(res[c].op) /\ res[c].chunk > 0) => res[c].err # "none"

\* an IngestHasSourceAts call of more records than one batch holds has
\* returned the error of the construction of a record of its first batch,
\* and an IngestSources call before it had stored its rows
C15_Witness ==
    /\ res["c1"].op = "IngestHasSourceAts"
    /\ res["c1"].err = "notfound"
    /\ res["c1"].chunk = 1
    /\ res["c1"].n > MaxBatchSize
    /\ srcStore # {}

\* C16: every step a bulk call takes after its context was cancelled ends
\* the call with an error: the step runs no statement (the rows the call is
\* reported to have written are those it had written before), and nothing is
\* stored.
C16_CancelStopsBulk ==
    [][ \A c \in Callers :
          (StepOf(c) /\ IsBulk(call[c].op) /\ call[c].ctx = "cancelled")
          => /\ pc'[c] = "idle"
             /\ res'[c].err # "none"
             /\ res'[c].wrote = tx[c].src \cup tx[c].hsa
             /\ UNCHANGED <<srcStore, hsaStore>> ]_vars

\* a bulk call was cancelled after the statement of its first batch had
\* written rows; it has returned the cancellation error from its second
\* batch and its rows are not stored
C16_Witness ==
    /\ IsBulk(res["c1"].op)
    /\ res["c1"].err = "cancelled"
    /\ res["c1"].chunk = 2
    /\ res["c1"].wrote # {}
    /\ res["c1"].wrote \cap (srcStore \cup hsaStore) = {}

(***************************************************************************)
(* Properties of the queries.                                              *)
(***************************************************************************)
\* a query of caller c has returned a list and nothing was ingested since
QueryResult(c, op) == res[c].op = op /\ res[c].err = "none"

\* the filter a query ran with: the empty one for a nil argument
FilterOf(arg, empty) == IF arg.isNil THEN empty ELSE arg.v

\* the pages of at most MaxPageSize of the given records
PagesOf(records) ==
    { page \in SUBSET records :
        Cardinality(page) = (IF Cardinality(records) > MaxPageSize THEN MaxPageSize
                             ELSE Cardinality(records)) }

\* the stored evidence rows that satisfy the set fields of a filter other
\* than knownSince and whose knownSince is at or after the filter's
AtOrAfter(filter) ==
    { r \in hsaStore : /\ hasSourceAtQuery([filter EXCEPT !.KnownSince = NoTime], r)
                       /\ r.known_since.t >= filter.KnownSince.t }

\* C17: a HasSourceAt query whose filter sets knownSince to t returns
\* exactly the stored records that satisfy the other set fields of the
\* filter and whose knownSince is at or after t, up to the page cap.
C17_KnownSinceAtOrAfter ==
    \A c \in Callers :
        (QueryResult(c, "HasSourceAt") /\ FilterOf(res[c].arg, EmptyHasSourceAtSpec).KnownSince # NoTime)
            => \E page \in PagesOf(AtOrAfter(res[c].arg.v)) :
                  res[c].page = { toModelHasSourceAt(r) : r \in page }

\* a source row satisfies a filter argument: every field that is set
\* equals the row's, the commit up to the case of its letters
MatchesSourceSpec(arg, r) ==
    \/ arg.isNil
    \/ /\ arg.v.ID \in {NoGID, toGlobalID(sourcenameTable, r.id)}
       /\ arg.v.Type \in {NoFilter, r.type}
       /\ arg.v.Namespace \in {NoFilter, r.namespace}
       /\ arg.v.Name \in {NoFilter, r.name}
       /\ arg.v.Tag \in {NoFilter, r.tag}
       /\ arg.v.Commit = NoFilter \/ ToLower(arg.v.Commit) = ToLower(r.commit)

\* C18: a Sources query returns a stored source exactly when every set
\* field of the filter matches it: id, type, namespace, name and tag by
\* equality, commit without regard to case; an unset field excludes
\* nothing and a nil filter matches every source (more matches than the
\* page cap are cut to a page).
C18_SourcesMatchSetFields ==
    \A c \in Callers :
        QueryResult(c, "Sources")
            => \E page \in PagesOf({ r \in srcStore : MatchesSourceSpec(res[c].arg, r) }) :
                  res[c].page = { toModelSourceName(r) : r \in page }

\* a query for commit "AB" has returned both the source stored with commit
\* "ab" and the one stored with "AB"; one for name a and type git has
\* returned source a alone out of three stored ones
C18_Witness ==
    /\ QueryResult("c1", "Sources")
    /\ Cardinality(srcStore) = 3
    /\ ~res["c1"].arg.isNil
    /\ res["c1"].arg.v.Commit = "AB"
    /\ res["c1"].page = { toModelSourceName(SourceRow(SourceInputSpec("b", NoStr, "ab"))),
                          toModelSourceName(SourceRow(SourceInputSpec("b", NoStr, "AB"))) }

\* the records of all stored rows that match the filter of the query caller
\* c has run
Matching(c) ==
    IF res[c].op = "Sources"
    THEN { toModelSourceName(r) :
             r \in { q \in srcStore : sourceQuery(FilterOf(res[c].arg, EmptySourceSpec), q) } }
    ELSE { toModelHasSourceAt(r) :
             r \in { q \in hsaStore : hasSourceAtQuery(FilterOf(res[c].arg, EmptyHasSourceAtSpec), q) } }

\* C19: a Sources or HasSourceAt query whose statement ran returns no
\* error; when more than MaxPageSize rows match it returns exactly
\* MaxPageSize of the matching records, otherwise all of them.
C19_PageCap ==
    \A c \in Callers :
        (res[c].op \in {"Sources", "HasSourceAt"} /\ res[c].err # "fault")
            => /\ res[c].err = "none"
               /\ res[c].page \subseteq Matching(c)
               /\ Cardinality(res[c].page) =
                     (IF Cardinality(Matching(c)) > MaxPageSize THEN MaxPageSize
                      ELSE Cardinality(Matching(c)))

\* a HasSourceAt query with a nil filter over more stored evidence rows than
\* a page holds has returned a full page, without an error
C19_Witness ==
    /\ QueryResult("c1", "HasSourceAt")
    /\ res["c1"].arg.isNil
    /\ Cardinality(hsaStore) > MaxPageSize
    /\ Cardinality(res["c1"].page) = MaxPageSize

(***************************************************************************)
(* Properties of the projection.                                           *)
(***************************************************************************)
\* the one name under the one namespace of a projected package
NamesOf(pkg) == pkg.Namespaces[1].Names

\* C20: the projection of a stored HasSourceAt row carries a package with
\* exactly one namespace holding exactly one name; the version list of that
\* name holds exactly the bound version when the row is bound to a version,
\* and is empty when the row is bound to all versions of the name.
C20_ProjectedPackageShape ==
    \A c \in Callers :
        QueryResult(c, "HasSourceAt")
            => \A rec \in res[c].page :
                  \E r \in hsaStore :
                     /\ rec.ID = toGlobalID(hassourceatTable, r.id)
                     /\ Len(rec.Package.Namespaces) = 1
                     /\ Len(NamesOf(rec.Package)) = 1
                     /\ IF r.package_version_id # NullID
                        THEN /\ Len(NamesOf(rec.Package)[1].Versions) = 1
                             /\ NamesOf(rec.Package)[1].Versions[1].ID =
                                   toGlobalID(packageversionTable, r.package_version_id)
                        ELSE /\ NamesOf(rec.Package)[1].Versions = <<>>
                             /\ NamesOf(rec.Package)[1].ID =
                                   toGlobalID(packagenameTable, r.package_name_id)

\* a HasSourceAt query has returned a record bound to version 1 of package
\* p, listing that version alone, together with a record bound to all
\* versions of p, listing none
C20_Witness ==
    /\ QueryResult("c1", "HasSourceAt")
    /\ \E rec, all \in res["c1"].page :
          /\ NamesOf(rec.Package)[1].Versions = << toModelPackageVersion(CHOOSE v \in pkgVersionStore : TRUE) >>
          /\ NamesOf(all.Package)[1].Versions = <<>>
          /\ NamesOf(all.Package)[1].Name = "p"
          /\ \E r \in hsaStore : /\ all.ID = toGlobalID(hassourceatTable, r.id)
                                  /\ r.package_name_id = PkgNameP
                                  /\ r.package_version_id = NullID

(***************************************************************************)
(* Properties of the neighbor calls.                                       *)
(***************************************************************************)
\* the edge of a source name that leads to a node of the given kind
EdgeTo(kind) ==
    CASE kind = "Source" -> "SOURCE_NAME_SOURCE_NAMESPACE"
      [] kind = "HasSourceAt" -> "SOURCE_HAS_SOURCE_AT"
      [] kind = "CertifyScorecard" -> "SOURCE_CERTIFY_SCORECARD"
      [] kind = "IsOccurrence" -> "SOURCE_IS_OCCURRENCE"
      [] kind = "CertifyBad" -> "SOURCE_CERTIFY_BAD"
      [] kind = "CertifyGood" -> "SOURCE_CERTIFY_GOOD"
      [] kind = "HasMetadata" -> "SOURCE_HAS_METADATA"
      [] kind = "PointOfContact" -> "SOURCE_POINT_OF_CONTACT"
      [] kind = "CertifyLegal" -> "SOURCE_CERTIFY_LEGAL"

\* C21: srcNameNeighbors returns a node of a relationship kind (HasSourceAt,
\* Scorecard, IsOccurrence, CertifyBad, CertifyGood, HasMetadata,
\* PointOfContact, CertifyLegal, source namespace) only if the edge of that
\* kind is in allowedEdges; with no allowed edge it returns no node.
C21_OnlyAllowedEdges ==
    \A c \in Callers :
        res[c].op = "srcNameNeighbors"
            => /\ \A n \in res[c].page : EdgeTo(n.kind) \in res[c].arg.allowedEdges
               /\ res[c].arg.allowedEdges = {} => res[c].page = {}

\* srcNameNeighbors of source a, which carries evidence of every kind and
\* two HasSourceAt records, was called with the HasSourceAt edge alone and
\* has returned the two HasSourceAt records and nothing else
C21_Witness ==
    /\ res["c1"].op = "srcNameNeighbors" /\ res["c1"].err = "none"
    /\ res["c1"].arg.nodeID = SourceAID
    /\ res["c1"].arg.allowedEdges = {"SOURCE_HAS_SOURCE_AT"}
    /\ SourceEvidence(SourceRow(SourceA)) # {}
    /\ Cardinality(hsaStore) = 2
    /\ res["c1"].page = { Node("HasSourceAt", toGlobalID(hassourceatTable, r.id)) : r \in hsaStore }

\* the read calls
ReadOps ==
    {"Sources", "HasSourceAt", "hasSourceAtNeighbors", "srcTypeNeighbors",
     "srcNamespaceNeighbors", "srcNameNeighbors"}

\* C22: the read operations Sources, HasSourceAt, hasSourceAtNeighbors,
\* srcTypeNeighbors, srcNamespaceNeighbors and srcNameNeighbors leave every
\* stored row unchanged, whatever filter, node identifier or edge set they
\* are given and whether they succeed or fail.
C22_ReadsLeaveStore ==
    [][\A c \in Callers :
          (pc[c] = "idle" /\ res'[c].op \in ReadOps /\ res'[c] # res[c])
              => UNCHANGED <<srcStore, hsaStore, tx>>]_vars

\* hasSourceAtNeighbors of a stored evidence record has failed, and the two
\* evidence records and the sources are stored as before
C22_Witness ==
    /\ res["c1"].op = "hasSourceAtNeighbors" /\ res["c1"].err = "fault"
    /\ \E r \in hsaStore : res["c1"].arg.nodeID = toGlobalID(hassourceatTable, r.id)
    /\ res["c1"].arg.allowedEdges = EdgesOf("hasSourceAtNeighbors")
    /\ Cardinality(hsaStore) = 2
    /\ Cardinality(srcStore) = 3

\* C23: two executions of the same Sources or HasSourceAt query against an
\* unchanged store return the same records, also when the number of
\* matching rows exceeds MaxPageSize (stated for a query run again by the
\* caller that holds its result: nothing was ingested in between).
C23_RepeatableQuery ==
    [][\A c \in Callers :
          ( /\ pc[c] = "idle" /\ pc'[c] = "idle"
            /\ res[c].op \in {"Sources", "HasSourceAt"} /\ res[c].err = "none"
            /\ res'[c].op = res[c].op /\ res'[c].arg = res[c].arg /\ res'[c].err = "none"
            /\ UNCHANGED <<srcStore, hsaStore>> )
              => res'[c].page = res[c].page]_vars

(***************************************************************************)
(* Properties of the identifiers.                                          *)
(***************************************************************************)
\* the SourceIDs records a source ingestion call of c is returning or has
\* returned
ReturnedSourceIDs(c) ==
    IF pc[c] = "commit" /\ call[c].op = "IngestSources" THEN SeqToSet(call[c].out)
    ELSE IF res[c].op = "IngestSource" /\ res[c].err = "none" THEN {res[c].out}
    ELSE {}

DocsOf(path) == SelectSeq(docs, LAMBDA d : d.Source = path)

\* exactly one document was received for every regular file, with the
\* file's content, and none for a directory
OneDocumentPerFile ==
    /\ \A path \in FilePaths :
          IF files[path].exists
          THEN DocsOf(path) = << [Source |-> path, Blob |-> files[path].content] >>
          ELSE DocsOf(path) = <<>>
    /\ \A dir \in DirPaths : DocsOf(dir) = <<>>

\* a call without polling on an existing path has returned, and no read of
\* a file had failed
ReturnedFromOneWalk ==
    /\ fc.pc = "returned" /\ ~fc.poll
    /\ fc.path \in DirPaths
    /\ fc.err # "error reading file"

C26_ModifiedFileIsSent ==
    (fc.pc = "sleep" /\ fc.ctx = "live")
        => \A path \in FilePaths :
              (files[path].exists
                 /\ \A i \in 1..Len(docs) : docs[i] # [Source |-> path, Blob |-> files[path].content])
                  => files[path].modTime > fc.lastChecked

\* the positions of a list of n records that the k-th batch holds
BatchPositions(k, n) == { i \in 1..n : (k - 1) * MaxBatchSize < i /\ i <= k * MaxBatchSize }

\* the create that the i-th package, source and evidence inputs of a bulk
\* call give
CreateAt(c, i) ==
    generateHasSourceAtCreate(SrcView(c), call[c].arg.pkgs[i], call[c].arg.sources[i],
                              call[c].arg.pkgMatchType, call[c].arg.hasSourceAts[i])

\* C27: in IngestHasSourceAts the i-th evidence record is bound to the i-th
\* package input and the i-th source input, also for records in the second
\* and later chunks: whenever a batch has been issued, every position of
\* the batch has a row that carries the source and package of the inputs at
\* that position of the lists together with the evidence at that position.
C27_PositionalBinding ==
    [][\A c \in Callers :
          (/\ pc[c] = "upsertBulkHasSourceAts"
           /\ \/ pc'[c] = "commit"
              \/ pc'[c] = "upsertBulkHasSourceAts" /\ call'[c].batch = call[c].batch + 1)
          => \A i \in BatchPositions(call[c].batch, Len(call[c].arg.hasSourceAts)) :
                /\ CreateAt(c, i).err = "none"
                /\ \E r \in hsaStore \cup tx'[c].hsa :
                      \A f \in DOMAIN CreateAt(c, i).create : r[f] = CreateAt(c, i).create[f]]_vars

\* a call of three records has issued its second batch: the third record,
\* the only one about source b, gave a row of source b while the first gave
\* a row of source a
C27_Witness ==
    /\ pc["c1"] = "commit" /\ call["c1"].op = "IngestHasSourceAts"
    /\ Len(call["c1"].arg) = 3
    /\ call["c1"].arg[1] = E1 /\ call["c1"].arg[2] = E1 /\ call["c1"].arg[3] = E2
    /\ \E r \in tx["c1"].hsa :
          /\ r.source_id = fromGlobalID(SourceBID).id
          /\ r.known_since = UTC(E2.KnownSince)
    /\ \E r \in tx["c1"].hsa :
          /\ r.source_id = fromGlobalID(SourceAID).id
          /\ r.known_since = UTC(E1.KnownSince)
    /\ \A r \in HsaView("c1") :
          r.source_id = fromGlobalID(SourceBID).id => r.known_since = UTC(E2.KnownSince)

\* the records of a bulk call in progress, and the number of them issued in
\* the batches before the present one
BulkInput(c) == IF call[c].op = "IngestSources" THEN call[c].arg ELSE call[c].arg.hasSourceAts
Issued(c) == IF call[c].op = "IngestSources" THEN Len(call[c].srcNameIDs) ELSE call[c].index

\* the identifier of the row of the i-th source of a bulk call
SourceIDAt(c, i) == generateUUIDKey(SrcServerKey(call[c].arg[i].SourceInput))

\* C28: a bulk ingestion call issues its records in chunks that each hold
\* at most MaxBatchSize records; every input record is in exactly one chunk,
\* and the chunks taken in the order they are issued reproduce the input
\* order.  Whenever a chunk has been issued, the chunks before it held
\* MaxBatchSize records each, the chunk holds the next records of the input
\* in their order, at least one and at most MaxBatchSize of them, and the
\* call goes on to commit exactly when no record is left.
C28_ChunksInOrder ==
    [][\A c \in Callers :
          (/\ pc[c] \in {"upsertBulkSource", "upsertBulkHasSourceAts"}
           /\ \/ pc'[c] = "commit"
              \/ pc'[c] = pc[c] /\ call'[c].batch = call[c].batch + 1)
          => LET n      == Len(BulkInput(c))
                 done   == Issued(c)
                 last   == IF pc'[c] = "commit" THEN n ELSE done + MaxBatchSize
             IN  /\ done = (call[c].batch - 1) * MaxBatchSize
                 /\ done < n
                 /\ last - done <= MaxBatchSize
                 /\ pc'[c] # "commit" => (last < n /\ Issued(c)' = last)
                 /\ IF call[c].op = "IngestSources"
                    THEN /\ \A i \in (done + 1)..last :
                              \E r \in srcStore \cup tx'[c].src : r.id = SourceIDAt(c, i)
                         /\ IF pc'[c] = "commit"
                            THEN call'[c].out = [i \in 1..n |-> SourceIDs(SourceIDAt(c, i))]
                            ELSE call'[c].srcNameIDs = [i \in 1..last |-> SourceIDAt(c, i)]
                    ELSE \A i \in (done + 1)..last :
                            /\ CreateAt(c, i).err = "none"
                            /\ \E r \in hsaStore \cup tx'[c].hsa :
                                  \A f \in DOMAIN CreateAt(c, i).create :
                                      r[f] = CreateAt(c, i).create[f]]_vars

\* bulk calls of three records have issued a full first chunk and are about
\* to issue the second, which holds the one record left
C28_Witness ==
    /\ pc["c1"] \in {"upsertBulkSource", "upsertBulkHasSourceAts"}
    /\ Len(BulkInput("c1")) = MaxBatchSize + 1
    /\ call["c1"].batch = 2
    /\ Issued("c1") = MaxBatchSize
    /\ BulkInput("c1")[1] # BulkInput("c1")[MaxBatchSize + 1]

\* the identifier of the package that the match type of the call selects
MatchingPackageID(a) ==
    IF a.pkgMatchType = ALL_VERSIONS THEN a.pkg.PackageNameID ELSE a.pkg.PackageVersionID

\* the call was given the identifier of the source and the identifier of
\* the package that matches its match type
IDsSupplied(a) ==
    /\ ~a.source.isNil /\ a.source.SourceNameID # NoGID
    /\ ~a.pkg.isNil /\ MatchingPackageID(a) # NoGID

\* C29: when IngestHasSourceAt is given a source identifier and the package
\* identifier that matches the match type, it issues no natural-key lookup
\* for the source or the package and binds the new row to exactly the
\* supplied local identifiers: the row whose identifier the call is about
\* to return carries the local part of the source identifier, the local
\* part of the package identifier in the column of the match type, and NULL
\* in the other package column; a call that ends in an error has issued no
\* lookup either.
C29_SuppliedIDsNoLookup ==
    [][\A c \in Callers :
          /\ (pc[c] = "upsertHasSourceAt" /\ pc'[c] = "commit" /\ IDsSupplied(call[c].arg))
              => LET a   == call[c].arg
                     pkg == fromGlobalID(MatchingPackageID(a)).id
                 IN  /\ call[c].reads = 0
                     /\ \E r \in hsaStore \cup tx'[c].hsa :
                           /\ toGlobalID(hassourceatTable, r.id) = call'[c].out
                           /\ r.source_id = fromGlobalID(a.source.SourceNameID).id
                           /\ r.package_name_id =
                                 IF a.pkgMatchType = ALL_VERSIONS THEN pkg ELSE NullID
                           /\ r.package_version_id =
                                 IF a.pkgMatchType = ALL_VERSIONS THEN NullID ELSE pkg
          /\ (res'[c].op = "IngestHasSourceAt" /\ IDsSupplied(res'[c].arg))
              => res'[c].reads = 0]_vars

\* a call given the identifier of source a and the identifier of the version
\* of package p, with no natural key of either, has written a new row
C29_Witness ==
    /\ pc["c1"] = "commit" /\ call["c1"].op = "IngestHasSourceAt"
    /\ call["c1"].arg.source = SrcRef(SourceAID, NoSourceInput)
    /\ call["c1"].arg.pkg = IDorPkgInput(NoGID, PkgVersionGID, NoPkgInput)
    /\ call["c1"].arg.pkgMatchType = SPECIFIC_VERSION
    /\ \E r \in tx["c1"].hsa :
          /\ toGlobalID(hassourceatTable, r.id) = call["c1"].out
          /\ r.source_id = fromGlobalID(SourceAID).id
          /\ r.package_version_id = PkgVersionP

\* a stored evidence row is bound to all versions of a package name that the
\* package filter matches
BoundToMatchingName(pkg, r) ==
    \E n \in pkgNameStore :
        /\ r.package_name_id = n.id
        /\ pkg.Name \in {NoFilter, n.name}

\* a stored evidence row is bound to a package version that the package
\* filter matches, by the version and by the name of its package
BoundToMatchingVersion(pkg, r) ==
    \E v \in pkgVersionStore : \E n \in pkgNameStore :
        /\ r.package_version_id = v.id /\ v.name_id = n.id
        /\ pkg.Version \in {NoFilter, v.version}
        /\ pkg.Name \in {NoFilter, n.name}

\* C30: the HasSourceAt query with a package filter returns the records
\* bound to all versions of a package name that matches the filter together
\* with the records bound to a specific package version that matches the
\* filter, and no record that matches neither (among the records that
\* satisfy the other fields of the filter, and cut to a page when more
\* match than a page holds).
C30_PackageFilterBothLevels ==
    \A c \in Callers :
        (QueryResult(c, "HasSourceAt") /\ ~FilterOf(res[c].arg, EmptyHasSourceAtSpec).Package.isNil)
            => LET filter == res[c].arg.v
                   others == [filter EXCEPT !.Package = Nil(EmptyPkgSpec)]
                   match  == { r \in hsaStore :
                                 /\ hasSourceAtQuery(others, r)
                                 /\ \/ BoundToMatchingName(filter.Package.v, r)
                                    \/ BoundToMatchingVersion(filter.Package.v, r) }
               IN  \E page \in PagesOf(match) :
                      res[c].page = { toModelHasSourceAt(r) : r \in page }

\* with a row bound to all versions of p and a row bound to version 1 of p
\* stored and nothing else, a query for version 1 of p has returned both
C30_Witness ==
    /\ QueryResult("c1", "HasSourceAt")
    /\ ~res["c1"].arg.isNil /\ ~res["c1"].arg.v.Package.isNil
    /\ res["c1"].arg.v.Package.v = PkgSpec("p", "1")
    /\ Cardinality(hsaStore) = 2
    /\ \E all, one \in hsaStore :
          /\ all.package_name_id = PkgNameP /\ all.package_version_id = NullID
          /\ one.package_name_id = NullID /\ one.package_version_id = PkgVersionP
          /\ res["c1"].page = { toModelHasSourceAt(all), toModelHasSourceAt(one) }

\* the nodes of the certifications of one type stored for the source with
\* the given name identifier
CertificationNodes(nodeID, type) ==
    { Node(NodeKindOf(e), toGlobalID(e.table, e.id)) :
        e \in { x \in UNION { SourceEvidence(s) :
                                s \in { q \in srcStore : toGlobalID(sourcenameTable, q.id) = nodeID } } :
                   x.table = "certifications" /\ x.type = type } }

\* C31: when allowedEdges contains both the CertifyBad edge and the
\* CertifyGood edge, srcNameNeighbors returns every CertifyBad attestation
\* and every CertifyGood attestation stored for the source; with only one
\* of the two edges allowed it returns the attestations of that type and
\* none of the other type.
C31_BothCertificationTypes ==
    \A c \in Callers :
        (res[c].op = "srcNameNeighbors" /\ res[c].err = "none")
            => LET bad  == CertificationNodes(res[c].arg.nodeID, "BAD")
                   good == CertificationNodes(res[c].arg.nodeID, "GOOD")
               IN  /\ IF "SOURCE_CERTIFY_BAD" \in res[c].arg.allowedEdges
                      THEN bad \subseteq res[c].page
                      ELSE bad \cap res[c].page = {}
                   /\ IF "SOURCE_CERTIFY_GOOD" \in res[c].arg.allowedEdges
                      THEN good \subseteq res[c].page
                      ELSE good \cap res[c].page = {}

\* the natural key of a stored source row, and of an input with a nil tag
\* or commit read as the empty string
KeyOfRow(r) == <<r.type, r.namespace, r.name, r.tag, r.commit>>
KeyOfInput(in) ==
    <<in.Type, in.Namespace, in.Name,
      IF in.Tag = NoStr THEN "" ELSE in.Tag, IF in.Commit = NoStr THEN "" ELSE in.Commit>>

\* C32: every SourceNameID returned by IngestSource or IngestSources
\* identifies a row that exists in the store after the call and whose
\* natural key (type, namespace, name, tag, commit) equals the natural key
\* of the corresponding input; every stored SourceName row's identifier is
\* the one derived from its own natural key.
C32_ReturnedIDsIdentifyRows ==
    [][/\ \A c \in Callers :
            (/\ pc[c] = "commit" /\ pc'[c] = "idle"
             /\ call[c].op \in {"IngestSource", "IngestSources"}
             /\ res'[c].err = "none")
            => LET inputs == IF call[c].op = "IngestSource" THEN <<call[c].arg>> ELSE call[c].arg
                   outs   == IF call[c].op = "IngestSource" THEN <<call[c].out>> ELSE call[c].out
               IN  /\ Len(outs) = Len(inputs)
                   /\ \A i \in 1..Len(inputs) :
                         \E r \in srcStore' :
                            /\ outs[i].SourceNameID = toGlobalID(sourcenameTable, r.id)
                            /\ KeyOfRow(r) = KeyOfInput(inputs[i].SourceInput)
       /\ \A r \in srcStore' : r.id = generateUUIDKey(KeyOfRow(r))]_vars

\* an IngestSource call for source a with a nil tag has returned the
\* identifier of the row stored with the empty tag, next to the rows of two
\* sources whose commits differ in case only
C32_Witness ==
    /\ res["c1"].op = "IngestSource" /\ res["c1"].err = "none"
    /\ res["c1"].arg.SourceInput.Tag = NoStr
    /\ \E r \in srcStore :
          /\ res["c1"].out.SourceNameID = toGlobalID(sourcenameTable, r.id)
          /\ r.name = "a" /\ r.tag = ""
    /\ Cardinality(srcStore) = 3

\* the input that names a stored source row by its natural key
InputOfRow(r) == [Type |-> r.type, Namespace |-> r.namespace, Name |-> r.name,
                  Tag |-> r.tag, Commit |-> r.commit]

\* C33: in every store reachable by ingestion, resolving the natural key of
\* a stored source through getSourceNameID returns the identifier of
\* exactly that row and never fails as ambiguous, also when the store holds
\* sources whose commits differ only in letter case.
C33_NaturalKeyResolvesToItsRow ==
    \A r \in srcStore :
        getSourceNameID(srcStore, InputOfRow(r)) = [err |-> "none", id |-> r.id]

\* C34: after the context is cancelled, RetrieveArtifacts eventually
\* returns a non-nil error, whether it is walking the directory, waiting
\* for the next poll interval, or sending a document on a channel that
\* nobody receives from.
C34_CancelledEventuallyReturns ==
    (fc.ctx = "cancelled") ~> (fc.pc = "returned" /\ fc.err # "")

\* C35: with polling enabled, a file that has not been modified since the
\* previous directory walk finished is not sent again in a later walk: a
\* file is sent in a walk only if its modification time is after the time
\* recorded at the end of the previous walk, and that time is recorded
\* when a walk has ended and at no other point.
C35_UnmodifiedFileNotResent ==
    [][/\ (fc.pc # "send" /\ fc'.pc = "send")
            => files[fc'.doc.Source].modTime > fc.lastChecked
       /\ fc'.lastChecked # fc.lastChecked
            => (fc.pc = "walk" /\ fc.walk = <<>> /\ fc'.lastChecked = now)]_vars

\* both files were sent in the first walk; d/s/b was written again after
\* that walk and a later walk has sent its new content, passing over d/a,
\* which was not modified since the first walk ended
C35_Witness ==
    /\ fc.poll /\ fc.pc = "sleep" /\ fc.ctx = "live"
    /\ docs = << [Source |-> "d/a", Blob |-> 1], [Source |-> "d/s/b", Blob |-> 1],
                 [Source |-> "d/s/b", Blob |-> 2] >>
    /\ files["d/a"].exists /\ files["d/a"].content = 1
    /\ files["d/a"].modTime <= fc.lastChecked

\* C36: when the collector's path does not exist, RetrieveArtifacts returns
\* an error and sends no document on the channel, in polling mode and in
\* one-shot mode alike: once the call has begun it has returned, with an
\* error, and the channel has carried nothing.
C36_MissingPathIsAnError ==
    fc.path \notin DirPaths
        => /\ docs = <<>> /\ fc.doc = NoDoc
           /\ fc.pc \in {"new", "returned"}
           /\ fc.pc = "returned" => fc.err # ""

\* the polling collector was started on a path that does not exist and has
\* returned the error of os.Stat
C36_Witness ==
    /\ fc.path = "missing" /\ fc.poll
    /\ fc.pc = "returned" /\ fc.err = "path does not exist"
    /\ docs = <<>>

(***************************************************************************)
(* Properties of the CertifyVuln list marshaller.                          *)
(***************************************************************************)
\* the call of the list marshaller has returned
ListReturned == mar.pc = "returned"

\* the value returned is an array (not Null, not the nil Array)
ReturnedArray == ListReturned /\ mar.out.kind = "array"

\* the marshalling of element i is over: it returned or it panicked
MarshallingOver(i) == mar.f[i] \in {"marshalled", "panicked", "recover", "end"}

\* the marshalling of element i panics
Panics(i) == marshalNCertifyVuln2(mar.sel, mar.v[i]) = Panic

\* C37: the list marshaller returns only after the marshalling of every
\* element is over, and in an array it returns the i-th entry is the
\* marshalled i-th element of the input, whatever the order in which the
\* goroutines ran.
C37_ReturnsAfterAllInOrder ==
    ListReturned =>
        /\ \A i \in DOMAIN mar.v : MarshallingOver(i)
        /\ ReturnedArray =>
             /\ Len(mar.out.a) = Len(mar.v)
             /\ \A i \in DOMAIN mar.v :
                    ~Panics(i) => mar.out.a[i] = marshalNCertifyVuln2(mar.sel, mar.v[i])

\* two different elements, neither null, returned in the order of the input
C37_Witness ==
    /\ ReturnedArray
    /\ mar.sel = {"id", "package"}
    /\ mar.v = <<Vuln("2", "p", "v", "m"), Vuln("3", "p", "v", NullField)>>
    /\ mar.out.a = << FieldSet({<<"id", "2">>, <<"package", "p">>}),
                      FieldSet({<<"id", "3">>, <<"package", "p">>}) >>

\* a selected field of element i resolves to null
NullFieldAt(i) == ~mar.v[i].nil /\ \E f \in mar.sel : mar.v[i][f] = NullField

\* the list marshalled to an array with one non-null entry per element
ArrayOfObjects ==
    /\ mar.out.kind = "array"
    /\ Len(mar.out.a) = Len(mar.v)
    /\ \A i \in DOMAIN mar.out.a : mar.out.a[i].kind = "object"

====
